---- MODULE Spec2Model ----
(***************************************************************************)
(* Outfit recommendation engine of FashionAI (DataBridge/backend):         *)
(* OutfitRecommender.recommend_outfits, _generate_combinations, the outfit *)
(* scorer, and the colour-harmony functions of ColorAnalyzer it calls.     *)
(*                                                                         *)
(* Python floats are modelled as exact rationals <<n, d>> (d > 0, lowest   *)
(* terms); a float NaN is the value NaN below.  Python strings that the    *)
(* code indexes (hex colours) are sequences of one-character strings.      *)
(***************************************************************************)
EXTENDS Integers, Sequences, FiniteSets, TLC

VARIABLES wardrobe, op, result

vars == <<wardrobe, op, result>>

----------------------------------------------------------------------------
(* Exact rational arithmetic standing for Python float arithmetic.         *)

Abs(x) == IF x < 0 THEN -x ELSE x

RECURSIVE GCD(_, _)
GCD(a, b) == IF b = 0 THEN a ELSE GCD(b, a % b)

LCM(a, b) == (a \div GCD(a, b)) * b

Sign(d) == IF d < 0 THEN -1 ELSE 1

Reduce(n, d, g) == <<(Sign(d) * n) \div g, (Sign(d) * d) \div g>>

Rat(n, d) == Reduce(n, d, GCD(Abs(n), Abs(d)))

R0 == <<0, 1>>
R1 == <<1, 1>>
Pct(n) == Rat(n, 100)
RInt(n) == <<n, 1>>

(* float NaN: every comparison with it is False, arithmetic keeps it *)
NaN == <<0, 0>>

IsNaN(x) == x[2] = 0

AddOver(a, b, l) == Rat(a[1] * (l \div a[2]) + b[1] * (l \div b[2]), l)

RAdd(a, b) ==
    IF IsNaN(a) \/ IsNaN(b) THEN NaN ELSE AddOver(a, b, LCM(a[2], b[2]))

RNeg(a) == <<-a[1], a[2]>>

RSub(a, b) == RAdd(a, RNeg(b))

MulReduced(x, y) == <<x[1] * y[1], x[2] * y[2]>>

RMul(a, b) ==
    IF IsNaN(a) \/ IsNaN(b) THEN NaN
    ELSE MulReduced(Rat(a[1], b[2]), Rat(b[1], a[2]))

RDiv(a, b) == RMul(a, Rat(b[2], b[1]))

LtOver(a, b, l) == a[1] * (l \div a[2]) < b[1] * (l \div b[2])

RLt(a, b) ==
    IF IsNaN(a) \/ IsNaN(b) THEN FALSE ELSE LtOver(a, b, LCM(a[2], b[2]))

(* x >= y on floats *)
FGe(x, y) == IF IsNaN(x) \/ IsNaN(y) THEN FALSE ELSE ~RLt(x, y)

RLe(a, b) == FGe(b, a)

RAbs(a) == <<Abs(a[1]), a[2]>>

(* Python's min(a, b) and max(a, b): b when b < a (b > a), else a *)
RMin(a, b) == IF RLt(b, a) THEN b ELSE a

RMax(a, b) == IF RLt(a, b) THEN b ELSE a

(* x % 1.0 for a float x: the fractional part, in [0, 1) *)
RMod1(a) == <<a[1] % a[2], a[2]>>

RECURSIVE RSum(_)
RSum(s) == IF s = <<>> THEN R0 ELSE RAdd(Head(s), RSum(Tail(s)))

(* np.mean of a non-empty list *)
RMean(s) == RDiv(RSum(s), RInt(Len(s)))

----------------------------------------------------------------------------
(* ColorAnalyzer: hex parsing and RGB -> HSV                               *)

HexDigits == <<"0","1","2","3","4","5","6","7","8","9","a","b","c","d","e","f">>

HexUpper == <<"0","1","2","3","4","5","6","7","8","9","A","B","C","D","E","F">>

(* value of one hexadecimal digit, either case *)
HexVal(c) ==
    CHOOSE v \in 0..15 : HexDigits[v + 1] = c \/ HexUpper[v + 1] = c

(* str.lstrip('#') *)
RECURSIVE lstrip_hash(_)
lstrip_hash(s) ==
    IF s # <<>> /\ Head(s) = "#" THEN lstrip_hash(Tail(s)) ELSE s

IsHexDigit(c) == \E v \in 0..15 : HexDigits[v + 1] = c \/ HexUpper[v + 1] = c

(* hex_color[i:i+2]: a slice stops at the end of the string *)
Slice2(s, i) == SubSeq(s, i + 1, IF Len(s) < i + 2 THEN Len(s) ELSE i + 2)

(* whether int(s, 16) accepts a string of at most two characters: one or   *)
(* two digits, a sign or a blank before one digit, a blank after one digit *)
int16_parses(s) ==
    \/ Len(s) = 1 /\ IsHexDigit(s[1])
    \/ Len(s) = 2 /\ IsHexDigit(s[1]) /\ IsHexDigit(s[2])
    \/ Len(s) = 2 /\ s[1] \in {"+", "-", " "} /\ IsHexDigit(s[2])
    \/ Len(s) = 2 /\ IsHexDigit(s[1]) /\ s[2] = " "

(* int(s, 16) where it parses *)
int16(s) ==
    IF Len(s) = 1 THEN HexVal(s[1])
    ELSE IF s[1] = "-" THEN 0 - HexVal(s[2])
    ELSE IF s[1] \in {"+", " "} THEN HexVal(s[2])
    ELSE IF s[2] = " " THEN HexVal(s[1])
    ELSE 16 * HexVal(s[1]) + HexVal(s[2])

(* int(s[i:i+2], 16) for the two characters from 0-based position i *)
HexByte(h, i) == int16(Slice2(h, i))

HexTriple(h) == <<HexByte(h, 0), HexByte(h, 2), HexByte(h, 4)>>

(* the generator of hex_to_rgb raises ValueError at the first slice int()  *)
(* rejects                                                                 *)
TripleRaises(h) ==
    \E i \in {0, 2, 4} : ~int16_parses(Slice2(h, i))

hex_to_rgb_raises(hex_color) == TripleRaises(lstrip_hash(hex_color))

(* ColorAnalyzer.hex_to_rgb, where it returns *)
hex_to_rgb(hex_color) == HexTriple(lstrip_hash(hex_color))

(* '{:02x}'.format(n): lowercase digits, zero-padded to two characters *)
RECURSIVE HexDigitsOf(_)
HexDigitsOf(n) ==
    IF n < 16 THEN <<HexDigits[n + 1]>>
    ELSE HexDigitsOf(n \div 16) \o <<HexDigits[(n % 16) + 1]>>

Format02x(n) ==
    IF n < 0 THEN <<"-">> \o HexDigitsOf(0 - n)
    ELSE IF n < 16 THEN <<"0">> \o HexDigitsOf(n)
    ELSE HexDigitsOf(n)

(* a variant formatting with uppercase digits *)
rgb_to_hex_upper(rgb) ==
    <<"#">> \o <<HexUpper[(rgb[1] \div 16) + 1], HexUpper[(rgb[1] % 16) + 1],
                 HexUpper[(rgb[2] \div 16) + 1], HexUpper[(rgb[2] % 16) + 1],
                 HexUpper[(rgb[3] \div 16) + 1], HexUpper[(rgb[3] % 16) + 1]>>

(* ColorAnalyzer.rgb_to_hex *)
rgb_to_hex(rgb) ==
    <<"#">> \o Format02x(rgb[1]) \o Format02x(rgb[2]) \o Format02x(rgb[3])

Max3(a, b, c) == IF a >= b /\ a >= c THEN a ELSE IF b >= c THEN b ELSE c

Min3(a, b, c) == IF a <= b /\ a <= c THEN a ELSE IF b <= c THEN b ELSE c

(* the hue in degrees: colorsys' h = (h / 6.0) % 1.0, times 360 *)
HueDegrees(r, g, b, maxc, rangec) ==
    RMul(RMod1(RDiv(
            IF r = maxc
            THEN RSub(Rat(maxc - b, rangec), Rat(maxc - g, rangec))
            ELSE IF g = maxc
            THEN RAdd(RInt(2),
                      RSub(Rat(maxc - r, rangec), Rat(maxc - b, rangec)))
            ELSE RAdd(RInt(4),
                      RSub(Rat(maxc - g, rangec), Rat(maxc - r, rangec))),
            RInt(6))),
         RInt(360))

HsvOf(r, g, b, maxc, minc) ==
    IF minc = maxc
    THEN <<R0, R0, RMul(Rat(maxc, 255), RInt(100))>>
    ELSE <<HueDegrees(r, g, b, maxc, maxc - minc),
           RMul(Rat(maxc - minc, maxc), RInt(100)),
           RMul(Rat(maxc, 255), RInt(100))>>

(* ColorAnalyzer.rgb_to_hsv: colorsys.rgb_to_hsv on r/255, g/255, b/255,   *)
(* then h * 360, s * 100, v * 100                                          *)
rgb_to_hsv(rgb) ==
    HsvOf(rgb[1], rgb[2], rgb[3], Max3(rgb[1], rgb[2], rgb[3]),
          Min3(rgb[1], rgb[2], rgb[3]))

(* int(x) for x >= 0 *)
RFloor(x) == x[1] \div x[2]

(* colorsys.hsv_to_rgb, the sector i % 6 of the hue *)
Sector(i, v, p, q, t) ==
    IF i = 0 THEN <<v, t, p>>
    ELSE IF i = 1 THEN <<q, v, p>>
    ELSE IF i = 2 THEN <<p, v, t>>
    ELSE IF i = 3 THEN <<p, q, v>>
    ELSE IF i = 4 THEN <<t, p, v>>
    ELSE <<v, p, q>>

(* a variant that takes the sector after the one the hue lies in *)
SectorFromHueExchanged(h6, s, v) ==
    Sector((RFloor(h6) + 1) % 6, v,
           RMul(v, RSub(R1, s)),
           RMul(v, RSub(R1, RMul(s, RSub(h6, RInt(RFloor(h6)))))),
           RMul(v, RSub(R1, RMul(s, RSub(R1, RSub(h6, RInt(RFloor(h6))))))))

(* i = int(h*6.0); f = h*6.0 - i; p = v*(1 - s); q = v*(1 - s*f);          *)
(* t = v*(1 - s*(1 - f))                                                   *)
SectorFromHue(h6, s, v) ==
    Sector(RFloor(h6) % 6, v,
           RMul(v, RSub(R1, s)),
           RMul(v, RSub(R1, RMul(s, RSub(h6, RInt(RFloor(h6)))))),
           RMul(v, RSub(R1, RMul(s, RSub(R1, RSub(h6, RInt(RFloor(h6))))))))

(* colorsys.hsv_to_rgb(h, s, v) *)
colorsys_hsv_to_rgb(h, s, v) ==
    IF s = R0 THEN <<v, v, v>> ELSE SectorFromHue(RMul(h, RInt(6)), s, v)

(* int(r * 255) on IEEE doubles: the double truncated lies within rounding *)
(* error of the exact product, so a product that is exactly a whole number *)
(* n > 0 truncates to n or, reached from below, to n - 1                   *)
Truncations(x) ==
    IF x[2] = 1 /\ x[1] > 0 THEN {x[1] - 1, x[1]} ELSE {RFloor(x)}

TruncatedTriples(rgb) ==
    Truncations(RMul(rgb[1], RInt(255)))
        \X Truncations(RMul(rgb[2], RInt(255)))
        \X Truncations(RMul(rgb[3], RInt(255)))

(* ColorAnalyzer.hsv_to_rgb: colorsys.hsv_to_rgb on h/360, s/100, v/100,   *)
(* then int(r*255), int(g*255), int(b*255); the triples it may return      *)
hsv_to_rgb(hsv) ==
    TruncatedTriples(colorsys_hsv_to_rgb(RDiv(hsv[1], RInt(360)),
                                         RDiv(hsv[2], RInt(100)),
                                         RDiv(hsv[3], RInt(100))))

(* circular hue difference, 0..180 *)
Fold180(d) == IF RLt(RInt(180), d) THEN RSub(RInt(360), d) ELSE d

HueDiff(h1, h2) == Fold180(RAbs(RSub(h1, h2)))

Between(lo, x, hi) == RLe(RInt(lo), x) /\ RLe(x, RInt(hi))

(* a variant that takes a pair for neutral only when both colours are *)
BothNeutral(c1, c2) == RLt(c1[2], RInt(20)) /\ RLt(c2[2], RInt(20))

(* s < 20 on either colour *)
EitherNeutral(c1, c2) == RLt(c1[2], RInt(20)) \/ RLt(c2[2], RInt(20))

(* a variant that tests the tetradic band before the triadic one *)
BandScoreTetradicFirst(hue_diff) ==
    IF Between(160, hue_diff, 200) THEN Pct(95)
    ELSE IF Between(75, hue_diff, 105) THEN Pct(90)
    ELSE IF Between(105, hue_diff, 135) THEN Pct(92)
    ELSE IF Between(15, hue_diff, 45) THEN Pct(87)
    ELSE IF Between(130, hue_diff, 170) THEN Pct(82)
    ELSE IF RLt(RInt(45), hue_diff) /\ RLe(hue_diff, RInt(75)) THEN Pct(78)
    ELSE Pct(55)

(* the base score of the first matching hue-difference band *)
BandScore(hue_diff) ==
    IF Between(160, hue_diff, 200) THEN Pct(95)
    ELSE IF Between(105, hue_diff, 135) \/ Between(225, hue_diff, 255)
         THEN Pct(92)
    ELSE IF Between(75, hue_diff, 105) \/ Between(255, hue_diff, 285)
         THEN Pct(90)
    ELSE IF Between(15, hue_diff, 45) THEN Pct(87)
    ELSE IF Between(130, hue_diff, 170) \/ Between(190, hue_diff, 210)
         THEN Pct(82)
    ELSE IF RLt(RInt(45), hue_diff) /\ RLe(hue_diff, RInt(75)) THEN Pct(78)
    ELSE IF RLt(RInt(75), hue_diff) /\ RLt(hue_diff, RInt(105)) THEN Pct(70)
    ELSE Pct(55)

(* if val_diff > 25: score = min(score + 0.05, 1.0) *)
ValueBonus(score, val_diff) ==
    IF RLt(RInt(25), val_diff) THEN RMin(RAdd(score, Pct(5)), R1) ELSE score

(* if sat_diff > 60: score = max(score - 0.05, 0.5) *)
SaturationPenalty(score, sat_diff) ==
    IF RLt(RInt(60), sat_diff) THEN RMax(RSub(score, Pct(5)), Pct(50))
    ELSE score

HarmonyOfDiffs(hue_diff, sat_diff, val_diff) ==
    IF RLt(hue_diff, RInt(15))
    THEN (IF RLt(RInt(30), val_diff) THEN Pct(88) ELSE Pct(75))
    ELSE SaturationPenalty(ValueBonus(BandScore(hue_diff), val_diff),
                           sat_diff)

HarmonyOfHsv(c1, c2) ==
    IF EitherNeutral(c1, c2) THEN Pct(85)
    ELSE HarmonyOfDiffs(HueDiff(c1[1], c2[1]), RAbs(RSub(c1[2], c2[2])),
                        RAbs(RSub(c1[3], c2[3])))

(* ColorAnalyzer.are_colors_harmonious *)
are_colors_harmonious(hex_color1, hex_color2) ==
    HarmonyOfHsv(rgb_to_hsv(hex_to_rgb(hex_color1)),
                 rgb_to_hsv(hex_to_rgb(hex_color2)))

SchemeOfHueDiff(hue_diff) ==
    IF RLt(hue_diff, RInt(15)) THEN "monochromatic"
    ELSE IF Between(15, hue_diff, 45) THEN "analogous"
    ELSE IF Between(75, hue_diff, 105) THEN "tetradic"
    ELSE IF Between(105, hue_diff, 135) THEN "triadic"
    ELSE IF Between(130, hue_diff, 170) THEN "split-complementary"
    ELSE IF Between(160, hue_diff, 200) THEN "complementary"
    ELSE "custom"

SchemeOfHsv(c1, c2) ==
    IF EitherNeutral(c1, c2) THEN "neutral"
    ELSE SchemeOfHueDiff(HueDiff(c1[1], c2[1]))

(* ColorAnalyzer.get_color_scheme_type *)
get_color_scheme_type(hex_color1, hex_color2) ==
    SchemeOfHsv(rgb_to_hsv(hex_to_rgb(hex_color1)),
                rgb_to_hsv(hex_to_rgb(hex_color2)))

(* self.color_names, in the order of the dict *)
color_names ==
    << [rgb |-> <<255, 0, 0>>, name |-> "Red"],
       [rgb |-> <<220, 20, 60>>, name |-> "Crimson"],
       [rgb |-> <<178, 34, 34>>, name |-> "Firebrick"],
       [rgb |-> <<255, 69, 0>>, name |-> "Red Orange"],
       [rgb |-> <<255, 99, 71>>, name |-> "Tomato"],
       [rgb |-> <<250, 128, 114>>, name |-> "Salmon"],
       [rgb |-> <<255, 192, 203>>, name |-> "Pink"],
       [rgb |-> <<255, 182, 193>>, name |-> "Light Pink"],
       [rgb |-> <<219, 112, 147>>, name |-> "Pale Violet Red"],
       [rgb |-> <<255, 20, 147>>, name |-> "Deep Pink"],
       [rgb |-> <<199, 21, 133>>, name |-> "Medium Violet Red"],
       [rgb |-> <<255, 0, 255>>, name |-> "Magenta"],
       [rgb |-> <<255, 105, 180>>, name |-> "Hot Pink"],
       [rgb |-> <<255, 165, 0>>, name |-> "Orange"],
       [rgb |-> <<255, 140, 0>>, name |-> "Dark Orange"],
       [rgb |-> <<255, 127, 80>>, name |-> "Coral"],
       [rgb |-> <<255, 160, 122>>, name |-> "Light Salmon"],
       [rgb |-> <<255, 218, 185>>, name |-> "Peach"],
       [rgb |-> <<255, 255, 0>>, name |-> "Yellow"],
       [rgb |-> <<255, 215, 0>>, name |-> "Gold"],
       [rgb |-> <<255, 255, 224>>, name |-> "Light Yellow"],
       [rgb |-> <<255, 250, 205>>, name |-> "Lemon"],
       [rgb |-> <<240, 230, 140>>, name |-> "Khaki"],
       [rgb |-> <<0, 255, 0>>, name |-> "Lime"],
       [rgb |-> <<0, 128, 0>>, name |-> "Green"],
       [rgb |-> <<34, 139, 34>>, name |-> "Forest Green"],
       [rgb |-> <<144, 238, 144>>, name |-> "Light Green"],
       [rgb |-> <<143, 188, 143>>, name |-> "Dark Sea Green"],
       [rgb |-> <<107, 142, 35>>, name |-> "Olive"],
       [rgb |-> <<154, 205, 50>>, name |-> "Yellow Green"],
       [rgb |-> <<0, 0, 255>>, name |-> "Blue"],
       [rgb |-> <<0, 0, 139>>, name |-> "Dark Blue"],
       [rgb |-> <<0, 191, 255>>, name |-> "Deep Sky Blue"],
       [rgb |-> <<135, 206, 235>>, name |-> "Sky Blue"],
       [rgb |-> <<173, 216, 230>>, name |-> "Light Blue"],
       [rgb |-> <<70, 130, 180>>, name |-> "Steel Blue"],
       [rgb |-> <<100, 149, 237>>, name |-> "Cornflower Blue"],
       [rgb |-> <<0, 128, 128>>, name |-> "Teal"],
       [rgb |-> <<64, 224, 208>>, name |-> "Turquoise"],
       [rgb |-> <<0, 255, 255>>, name |-> "Cyan"],
       [rgb |-> <<128, 0, 128>>, name |-> "Purple"],
       [rgb |-> <<138, 43, 226>>, name |-> "Blue Violet"],
       [rgb |-> <<148, 0, 211>>, name |-> "Dark Violet"],
       [rgb |-> <<186, 85, 211>>, name |-> "Medium Orchid"],
       [rgb |-> <<221, 160, 221>>, name |-> "Plum"],
       [rgb |-> <<238, 130, 238>>, name |-> "Violet"],
       [rgb |-> <<75, 0, 130>>, name |-> "Indigo"],
       [rgb |-> <<147, 112, 219>>, name |-> "Medium Purple"],
       [rgb |-> <<165, 42, 42>>, name |-> "Brown"],
       [rgb |-> <<139, 69, 19>>, name |-> "Saddle Brown"],
       [rgb |-> <<160, 82, 45>>, name |-> "Sienna"],
       [rgb |-> <<210, 105, 30>>, name |-> "Chocolate"],
       [rgb |-> <<205, 133, 63>>, name |-> "Peru"],
       [rgb |-> <<244, 164, 96>>, name |-> "Sandy Brown"],
       [rgb |-> <<222, 184, 135>>, name |-> "Burlywood"],
       [rgb |-> <<210, 180, 140>>, name |-> "Tan"],
       [rgb |-> <<0, 0, 0>>, name |-> "Black"],
       [rgb |-> <<255, 255, 255>>, name |-> "White"],
       [rgb |-> <<128, 128, 128>>, name |-> "Gray"],
       [rgb |-> <<192, 192, 192>>, name |-> "Silver"],
       [rgb |-> <<211, 211, 211>>, name |-> "Light Gray"],
       [rgb |-> <<169, 169, 169>>, name |-> "Dark Gray"],
       [rgb |-> <<245, 245, 220>>, name |-> "Beige"],
       [rgb |-> <<255, 248, 220>>, name |-> "Cornsilk"],
       [rgb |-> <<250, 240, 230>>, name |-> "Linen"],
       [rgb |-> <<245, 222, 179>>, name |-> "Wheat"],
       [rgb |-> <<255, 228, 196>>, name |-> "Bisque"],
       [rgb |-> <<255, 235, 205>>, name |-> "Blanched Almond"],
       [rgb |-> <<0, 0, 128>>, name |-> "Navy"],
       [rgb |-> <<25, 25, 112>>, name |-> "Midnight Blue"],
       [rgb |-> <<128, 0, 0>>, name |-> "Maroon"],
       [rgb |-> <<139, 0, 0>>, name |-> "Dark Red"],
       [rgb |-> <<85, 107, 47>>, name |-> "Dark Olive Green"] >>

(* sum((a - b) ** 2 for a, b in zip(rgb, known_rgb)), the square of the    *)
(* Euclidean distance                                                      *)
SquaredDistance(a, b) ==
    (a[1] - b[1]) * (a[1] - b[1]) + (a[2] - b[2]) * (a[2] - b[2])
        + (a[3] - b[3]) * (a[3] - b[3])

(* the loop over self.color_names of the first definition of               *)
(* get_color_name: the index of the closest entry, the earliest of those   *)
(* at the same distance                                                    *)
ClosestEntry(rgb) ==
    CHOOSE i \in 1..Len(color_names) :
        \A j \in 1..Len(color_names) :
            IF j < i
            THEN SquaredDistance(rgb, color_names[j].rgb)
                    > SquaredDistance(rgb, color_names[i].rgb)
            ELSE SquaredDistance(rgb, color_names[j].rgb)
                    >= SquaredDistance(rgb, color_names[i].rgb)

(* the second definition of get_color_name, from the HSV triple on *)
NameOfHsv(hsv) ==
    IF RLt(hsv[2], RInt(20))
    THEN (IF RLt(RInt(80), hsv[3]) THEN "White"
          ELSE IF RLt(hsv[3], RInt(20)) THEN "Black"
          ELSE "Gray")
    ELSE IF RLt(hsv[1], RInt(15)) \/ RLe(RInt(345), hsv[1]) THEN "Red"
    ELSE IF RLt(hsv[1], RInt(45)) THEN "Orange"
    ELSE IF RLt(hsv[1], RInt(75)) THEN "Yellow"
    ELSE IF RLt(hsv[1], RInt(165)) THEN "Green"
    ELSE IF RLt(hsv[1], RInt(255)) THEN "Blue"
    ELSE IF RLt(hsv[1], RInt(285)) THEN "Purple"
    ELSE IF RLt(hsv[1], RInt(345)) THEN "Pink"
    ELSE "Red"

(* ColorAnalyzer.get_color_name: the class body defines the name twice and *)
(* the second definition, which takes a hex string, is the one bound       *)
get_color_name(hex_color) == NameOfHsv(rgb_to_hsv(hex_to_rgb(hex_color)))

----------------------------------------------------------------------------
(* Python dict access on a clothing item (a record whose DOMAIN is the set *)
(* of keys the dict holds)                                                 *)

None == "<None>"

(* item.get(key, default) *)
ItemGet(item, key, default) ==
    IF key \in DOMAIN item THEN item[key] ELSE default

GrayHex == <<"#", "8", "0", "8", "0", "8", "0">>

Red == <<"#", "f", "f", "0", "0", "0", "0">>
CyanUpper == <<"#", "0", "0", "F", "F", "F", "F">>
White == <<"#", "f", "f", "f", "f", "f", "f">>
Navy == <<"#", "0", "0", "0", "0", "8", "0">>
Orange == <<"#", "f", "f", "8", "0", "0", "0">>
Maroon == <<"#", "8", "0", "0", "0", "0", "0">>

(* the colours the items of the model carry *)
Palette == {Red, CyanUpper, White, Navy, Orange, Maroon, GrayHex}

(* are_colors_harmonious and get_color_scheme_type depend on their two     *)
(* arguments only: their values on the palette, computed once              *)
HarmonyOnPalette ==
    [pair \in Palette \X Palette |->
        are_colors_harmonious(pair[1], pair[2])]

SchemeOnPalette ==
    [pair \in Palette \X Palette |->
        get_color_scheme_type(pair[1], pair[2])]

(* self.color_analyzer.are_colors_harmonious(colors[i], colors[j]) *)
HarmonyBetween(color1, color2) ==
    IF <<color1, color2>> \in DOMAIN HarmonyOnPalette
    THEN HarmonyOnPalette[<<color1, color2>>]
    ELSE are_colors_harmonious(color1, color2)

(* self.color_analyzer.get_color_scheme_type(colors[i], colors[j]) *)
SchemeBetween(color1, color2) ==
    IF <<color1, color2>> \in DOMAIN SchemeOnPalette
    THEN SchemeOnPalette[<<color1, color2>>]
    ELSE get_color_scheme_type(color1, color2)

(* an embedding: None, a vector of numbers, or a vector holding a NaN *)
NoFeatures == [kind |-> "none"]

Vec(v) == [kind |-> "vec", v |-> v]

NaNVec == [kind |-> "nan"]

RECURSIVE Dot(_, _)
Dot(a, b) ==
    IF a = <<>> THEN 0 ELSE Head(a) * Head(b) + Dot(Tail(a), Tail(b))

(* np.linalg.norm, for the vectors of integer length the model uses *)
Norm(v) == CHOOSE n \in 0..Dot(v, v) : n * n = Dot(v, v)

ZeroNorm(f) == f.kind = "vec" /\ Norm(f.v) = 0

(* (dot / (norm1 * norm2) + 1) / 2 *)
HalfCosinePlusOne(dot, norm1, norm2) ==
    RDiv(RAdd(Rat(dot, norm1 * norm2), R1), RInt(2))

(* ClothingClassifier.compute_similarity *)
compute_similarity(features1, features2) ==
    IF ZeroNorm(features1) \/ ZeroNorm(features2) THEN R0
    ELSE IF features1.kind = "nan" \/ features2.kind = "nan" THEN NaN
    ELSE HalfCosinePlusOne(Dot(features1.v, features2.v),
                           Norm(features1.v), Norm(features2.v))

(* the unordered pairs (i, j), i < j, of 1..n in the order of the nested   *)
(* loops  for i in range(n): for j in range(i + 1, n)                      *)
RECURSIVE PairsFrom(_, _, _)
PairsFrom(i, j, n) ==
    IF i >= n THEN <<>>
    ELSE IF j > n THEN PairsFrom(i + 1, i + 2, n)
    ELSE <<(<<i, j>>)>> \o PairsFrom(i, j + 1, n)

Pairs(n) == PairsFrom(1, 2, n)

Contains(seq, x) == \E i \in 1..Len(seq) : seq[i] = x

SeqToSet(seq) == {seq[i] : i \in 1..Len(seq)}

----------------------------------------------------------------------------
(* OutfitRecommender: the occasion rule table and the outfit scorer        *)

occasion_rules ==
    [casual |->
        [preferred_combinations |->
            << <<"top", "bottom">>, <<"dress">>, <<"top", "bottom", "shoes">> >>,
         color_style |-> "relaxed", formality |-> Rat(3, 10)],
     formal |->
        [preferred_combinations |->
            << <<"blazer", "top", "bottom">>, <<"dress">>, <<"top", "bottom">>,
               <<"blazer", "dress">> >>,
         color_style |-> "conservative", formality |-> Rat(9, 10)],
     business |->
        [preferred_combinations |->
            << <<"blazer", "top", "bottom">>, <<"top", "bottom">>,
               <<"blazer", "dress">>, <<"dress">> >>,
         color_style |-> "professional", formality |-> Rat(8, 10)],
     party |->
        [preferred_combinations |->
            << <<"dress">>, <<"top", "bottom">>, <<"blazer", "top", "bottom">>,
               <<"top", "bottom", "shoes">> >>,
         color_style |-> "bold", formality |-> Rat(5, 10)],
     date |->
        [preferred_combinations |->
            << <<"dress">>, <<"top", "bottom">>, <<"blazer", "top", "bottom">> >>,
         color_style |-> "harmonious", formality |-> Rat(6, 10)],
     sports |->
        [preferred_combinations |->
            << <<"top", "bottom">>, <<"top", "bottom", "shoes">> >>,
         color_style |-> "vibrant", formality |-> Rat(2, 10)]]

(* a variant of the lookup that falls back to the formal rule *)
RulesOrFormal(occasion) ==
    IF occasion \in DOMAIN occasion_rules
    THEN occasion_rules[occasion] ELSE occasion_rules["formal"]

(* a variant whose rule lists its first pattern a second time *)
RulesRepeatingPattern(occasion) ==
    [RulesOrFormal(IF occasion \in DOMAIN occasion_rules
                   THEN occasion ELSE "casual")
        EXCEPT !.preferred_combinations = Append(@, Head(@))]

(* self.occasion_rules.get(occasion, self.occasion_rules['casual']) *)
RulesFor(occasion) ==
    IF occasion \in DOMAIN occasion_rules
    THEN occasion_rules[occasion] ELSE occasion_rules["casual"]

(* colors.append(dominant); if len(item_colors) > 1:                       *)
(* colors.append(item_colors[1]['hex'])                                    *)
ItemHarmonyColors(dominant, item_colors) ==
    IF Len(item_colors) > 1
    THEN <<dominant, item_colors[2].hex>> ELSE <<dominant>>

(* the flat colour list _calculate_color_harmony collects: each item's     *)
(* dominant colour, then its secondary colour when it has one              *)
RECURSIVE HarmonyColors(_)
HarmonyColors(outfit_items) ==
    IF outfit_items = <<>> THEN <<>>
    ELSE ItemHarmonyColors(
             ItemGet(Head(outfit_items), "dominant_color", GrayHex),
             ItemGet(Head(outfit_items), "colors", <<>>))
         \o HarmonyColors(Tail(outfit_items))

(* a variant of the boost without its cap *)
BoostUncapped(avg_harmony, factor) == RMul(avg_harmony, Pct(factor))

(* min(avg_harmony * factor, 1.0), factor in hundredths *)
Boost(avg_harmony, factor) == RMin(RMul(avg_harmony, Pct(factor)), R1)

BoostIf(condition, avg_harmony, factor) ==
    IF condition THEN Boost(avg_harmony, factor) ELSE avg_harmony

(* conservative: if 'complementary' in scheme_types and avg_harmony > 0.92: *)
(* avg_harmony *= 0.96                                                      *)
ReduceIf(condition, avg_harmony) ==
    IF condition /\ RLt(Pct(92), avg_harmony)
    THEN RMul(avg_harmony, Pct(96)) ELSE avg_harmony

(* the style-specific adjustments of the average harmony *)
StyleAdjusted(avg_harmony, scheme_types, color_style) ==
    CASE color_style = "conservative" ->
            ReduceIf(Contains(scheme_types, "complementary"),
                BoostIf(Contains(scheme_types, "analogous")
                            \/ Contains(scheme_types, "monochromatic"),
                        avg_harmony, 108))
      [] color_style = "bold" ->
            BoostIf(Contains(scheme_types, "triadic"),
                BoostIf(Contains(scheme_types, "complementary"),
                        avg_harmony, 110),
                108)
      [] color_style = "professional" ->
            BoostIf(Contains(scheme_types, "monochromatic"),
                BoostIf(Contains(scheme_types, "neutral"), avg_harmony, 112),
                106)
      [] color_style = "harmonious" ->
            BoostIf(Contains(scheme_types, "monochromatic"),
                BoostIf(Contains(scheme_types, "analogous"), avg_harmony, 110),
                108)
      [] color_style = "vibrant" ->
            BoostIf(Contains(scheme_types, "triadic")
                        \/ Contains(scheme_types, "tetradic"),
                    avg_harmony, 108)
      [] OTHER -> avg_harmony

(* if len(set(scheme_types)) > 1: avg_harmony = min(avg_harmony * 1.03, 1) *)
VarietyBonus(avg_harmony, scheme_types) ==
    BoostIf(Cardinality(SeqToSet(scheme_types)) > 1, avg_harmony, 103)

HarmonyOfScores(harmony_scores, scheme_types, color_style) ==
    IF harmony_scores = <<>> THEN Pct(88)
    ELSE VarietyBonus(StyleAdjusted(RMean(harmony_scores), scheme_types,
                                    color_style),
                      scheme_types)

HarmonyOfPairs(colors, pairs, color_style) ==
    HarmonyOfScores(
        [k \in 1..Len(pairs) |->
            HarmonyBetween(colors[pairs[k][1]], colors[pairs[k][2]])],
        [k \in 1..Len(pairs) |->
            SchemeBetween(colors[pairs[k][1]], colors[pairs[k][2]])],
        color_style)

HarmonyOfColors(colors, color_style) ==
    HarmonyOfPairs(colors, Pairs(Len(colors)), color_style)

(* OutfitRecommender._calculate_color_harmony *)
calculate_color_harmony(outfit_items, color_style) ==
    IF Len(outfit_items) < 2 THEN Pct(88)
    ELSE HarmonyOfColors(HarmonyColors(outfit_items), color_style)

(* the embeddings _calculate_style_similarity keeps: 'features' present    *)
(* and not None                                                            *)
RECURSIVE FeaturesList(_)
FeaturesList(outfit_items) ==
    IF outfit_items = <<>> THEN <<>>
    ELSE (IF ItemGet(Head(outfit_items), "features", NoFeatures) # NoFeatures
          THEN <<Head(outfit_items).features>> ELSE <<>>)
         \o FeaturesList(Tail(outfit_items))

(* a variant that returns the average similarity itself *)
SimilarityUnnormalised(features_list, pairs) ==
    IF pairs = <<>> THEN Pct(75)
    ELSE RMean([k \in 1..Len(pairs) |->
                   compute_similarity(features_list[pairs[k][1]],
                                      features_list[pairs[k][2]])])

(* normalized = 0.6 + (avg_similarity * 0.4) over the pairs of embeddings *)
SimilarityOfPairs(features_list, pairs) ==
    IF pairs = <<>> THEN Pct(75)
    ELSE RAdd(Pct(60),
              RMul(RMean([k \in 1..Len(pairs) |->
                       compute_similarity(features_list[pairs[k][1]],
                                          features_list[pairs[k][2]])]),
                   Pct(40)))

SimilarityOfFeatures(features_list) ==
    IF Len(features_list) < 2 THEN Pct(75)
    ELSE SimilarityOfPairs(features_list, Pairs(Len(features_list)))

(* a variant without the test of the outfit's size *)
SimilarityWhateverSize(outfit_items) ==
    SimilarityOfFeatures(FeaturesList(outfit_items))

(* OutfitRecommender._calculate_style_similarity *)
calculate_style_similarity(outfit_items) ==
    IF Len(outfit_items) < 2 THEN Pct(80)
    ELSE SimilarityOfFeatures(FeaturesList(outfit_items))

formality_scores ==
    [dress |-> Pct(70), blazer |-> Pct(90), top |-> Pct(50),
     bottom |-> Pct(50), shoes |-> Pct(60), other |-> Pct(40)]

(* formality_scores.get(item_type, 0.5) *)
FormalityOf(item_type) ==
    IF item_type \in DOMAIN formality_scores
    THEN formality_scores[item_type] ELSE Pct(50)

(* fit_score = 1.0 - (formality_diff * 0.8); return max(fit_score, 0.5) *)
FitOfFormality(outfit_formality, formality_required) ==
    RMax(RSub(R1, RMul(RAbs(RSub(outfit_formality, formality_required)),
                       Pct(80))),
         Pct(50))

(* OutfitRecommender._calculate_occasion_fit *)
calculate_occasion_fit(outfit_items, rules) ==
    FitOfFormality(
        RMean([i \in 1..Len(outfit_items) |->
                  FormalityOf(ItemGet(outfit_items[i], "type", "other"))]),
        ItemGet(rules, "formality", Pct(50)))

(* variety_score = min(len(outfit_items) / 3.0, 1.0) *)
VarietyScore(outfit_items) == RMin(Rat(Len(outfit_items), 3), R1)

(* color 0.40 + style 0.30 + occasion 0.20 + variety 0.10 *)
WeightedScore(color_score, style_score, occasion_score, variety_score) ==
    RAdd(RAdd(RAdd(RMul(color_score, Pct(40)), RMul(style_score, Pct(30))),
              RMul(occasion_score, Pct(20))),
         RMul(variety_score, Pct(10)))

(* OutfitRecommender._calculate_outfit_score *)
calculate_outfit_score(outfit_items, occasion, rules) ==
    IF outfit_items = <<>> THEN R0
    ELSE WeightedScore(calculate_color_harmony(outfit_items, rules.color_style),
                       calculate_style_similarity(outfit_items),
                       calculate_occasion_fit(outfit_items, rules),
                       VarietyScore(outfit_items))

(* scheme_counts[scheme] *)
SchemeCount(schemes, scheme) ==
    Cardinality({k \in 1..Len(schemes) : schemes[k] = scheme})

(* max(scheme_counts, key=scheme_counts.get): the first-inserted key among *)
(* those with the largest count                                            *)
DominantScheme(schemes) ==
    schemes[CHOOSE k \in 1..Len(schemes) :
               /\ \A m \in 1..Len(schemes) :
                      SchemeCount(schemes, schemes[m])
                          <= SchemeCount(schemes, schemes[k])
               /\ \A m \in 1..(k - 1) :
                      SchemeCount(schemes, schemes[m])
                          < SchemeCount(schemes, schemes[k])]

SchemeSummary(colors, schemes, dominant_scheme) ==
    [scheme |-> dominant_scheme,
     confidence |-> Rat(SchemeCount(schemes, dominant_scheme), Len(schemes)),
     colors |-> colors]

SchemeOfSchemes(colors, schemes) ==
    SchemeSummary(colors, schemes, DominantScheme(schemes))

SchemeOfPairs(colors, pairs) ==
    SchemeOfSchemes(colors,
        [k \in 1..Len(pairs) |->
            SchemeBetween(colors[pairs[k][1]], colors[pairs[k][2]])])

SchemeOfColors(colors) == SchemeOfPairs(colors, Pairs(Len(colors)))

(* OutfitRecommender._get_outfit_color_scheme *)
get_outfit_color_scheme(outfit_items) ==
    IF Len(outfit_items) < 2
    THEN [scheme |-> "monochromatic", confidence |-> Pct(90),
          colors |-> IF outfit_items = <<>> THEN <<GrayHex>>
                     ELSE <<ItemGet(outfit_items[1], "dominant_color", GrayHex)>>]
    ELSE SchemeOfColors([i \in 1..Len(outfit_items) |->
             ItemGet(outfit_items[i], "dominant_color", GrayHex)])

----------------------------------------------------------------------------
(* OutfitRecommender._generate_combinations and recommend_outfits          *)

(* the keys of items_by_type, in the wardrobe: item.get('type', 'other') *)
GroupKey(item) == ItemGet(item, "type", "other")

(* the items of one type, in wardrobe order *)
RECURSIVE ItemsOfType(_, _)
ItemsOfType(clothing_items, item_type) ==
    IF clothing_items = <<>> THEN <<>>
    ELSE (IF GroupKey(Head(clothing_items)) = item_type
          THEN <<Head(clothing_items)>> ELSE <<>>)
         \o ItemsOfType(Tail(clothing_items), item_type)

(* items_by_type as recommend_outfits builds it: each type present maps to *)
(* its items in wardrobe order                                             *)
ItemsByType(clothing_items) ==
    [t \in {GroupKey(clothing_items[i]) : i \in 1..Len(clothing_items)} |->
        ItemsOfType(clothing_items, t)]

(* a variant without the duplicate test *)
NoDuplicateTest(seq) == FALSE

(* len(combination_pattern) != len(set(combination_pattern)) *)
HasDuplicates(seq) == Len(seq) # Cardinality(SeqToSet(seq))

(* has_top and has_bottom, has_dress, has_blazer and has_top and           *)
(* has_bottom: the three tests made on the pattern without its shoes       *)
ValidWithoutShoes(shoes_removed) ==
    \/ "top" \in shoes_removed /\ "bottom" \in shoes_removed
    \/ "dress" \in shoes_removed
    \/ "blazer" \in shoes_removed /\ "top" \in shoes_removed
          /\ "bottom" \in shoes_removed

ValidPatternSet(pattern_set) ==
    \/ pattern_set = {"dress"}
    \/ "top" \in pattern_set /\ "bottom" \in pattern_set
    \/ "blazer" \in pattern_set /\ "top" \in pattern_set
          /\ "bottom" \in pattern_set
    \/ "blazer" \in pattern_set /\ "dress" \in pattern_set
    \/ "shoes" \in pattern_set /\ ValidWithoutShoes(pattern_set \ {"shoes"})

(* the complementary-pieces validation of a pattern *)
ValidOutfitPattern(combination_pattern) ==
    ValidPatternSet(SeqToSet(combination_pattern))

(* a variant without the threshold *)
AcceptAll(score) == TRUE

(* score >= 0.50, the minimum threshold of an accepted outfit *)
MeetsThreshold(score) == FGe(score, Pct(50))

(* available_items[:5] *)
(* a variant that tries every item of the type *)
AllItems(items) == items

(* available_items[:5] *)
FirstFive(items) == SubSeq(items, 1, IF Len(items) < 5 THEN Len(items) ELSE 5)

OutfitDict(current_outfit, score, occasion, outfit_types, info) ==
    [items |-> current_outfit,
     score |-> score,
     total_items |-> Len(current_outfit),
     occasion |-> occasion,
     types |-> outfit_types,
     color_scheme |-> info.scheme,
     color_scheme_confidence |-> info.confidence,
     dominant_colors |-> info.colors]

(* the outfit dictionary appended for a completed assignment *)
OutfitRecord(current_outfit, score, occasion, outfit_types) ==
    OutfitDict(current_outfit, score, occasion, outfit_types,
               get_outfit_color_scheme(current_outfit))

(* [item.get('type') for item in current_outfit] *)
OutfitTypes(current_outfit) ==
    [i \in 1..Len(current_outfit) |-> ItemGet(current_outfit[i], "type", None)]

(* if score >= 0.50: outfits.append({...}) *)
Scored(ctx, current_outfit, outfit_types, score, acc) ==
    IF MeetsThreshold(score)
    THEN [acc EXCEPT !.scored = @ + 1,
                     !.outfits = Append(@,
                         OutfitRecord(current_outfit, score, ctx.occasion,
                                      outfit_types))]
    ELSE [acc EXCEPT !.scored = @ + 1]

(* the base case: pattern_index >= len(combination_pattern) *)
Completed(ctx, current_outfit, outfit_types, acc) ==
    IF HasDuplicates(outfit_types) THEN acc
    ELSE Scored(ctx, current_outfit, outfit_types,
                calculate_outfit_score(current_outfit, ctx.occasion, ctx.rules),
                acc)

(* items_by_type.get(current_type, []) *)
AvailableItems(items_by_type, current_type) ==
    IF current_type \in DOMAIN items_by_type
    THEN items_by_type[current_type] ELSE <<>>

(* The closure generate_recursive.  ctx holds what it captures from        *)
(* _generate_combinations (items_by_type, combination_pattern, occasion,   *)
(* rules, max_combinations); acc holds the captured outfits list together  *)
(* with two counters: the items appended to a partial outfit (tried) and   *)
(* the calls of _calculate_outfit_score (scored).  pattern_index counts    *)
(* from 0 as in the code.                                                  *)
RECURSIVE generate_recursive(_, _, _, _, _)
RECURSIVE TryItems(_, _, _, _, _, _, _)
RECURSIVE TryItem(_, _, _, _, _, _, _)

generate_recursive(ctx, pattern_index, current_outfit, used_types, acc) ==
    IF pattern_index >= Len(ctx.combination_pattern)
    THEN Completed(ctx, current_outfit, OutfitTypes(current_outfit), acc)
    ELSE IF Len(acc.outfits) >= ctx.max_combinations THEN acc
    ELSE IF ctx.combination_pattern[pattern_index + 1] \in used_types THEN acc
    ELSE TryItems(ctx, pattern_index, current_outfit, used_types,
                  FirstFive(AvailableItems(ctx.items_by_type,
                      ctx.combination_pattern[pattern_index + 1])),
                  1, acc)

(* the loop  for item in available_items[:5]  from its i-th item on *)
TryItems(ctx, pattern_index, current_outfit, used_types, items, i, acc) ==
    IF i > Len(items) THEN acc
    ELSE IF Len(acc.outfits) >= ctx.max_combinations THEN acc
    ELSE TryItems(ctx, pattern_index, current_outfit, used_types, items, i + 1,
                  TryItem(ctx, pattern_index, current_outfit, used_types,
                          items[i], ctx.combination_pattern[pattern_index + 1],
                          acc))

(* a variant of the loop body that descends two positions at once *)
TryItemSkipping(ctx, pattern_index, current_outfit, used_types, item, current_type, acc) ==
    IF ItemGet(item, "type", None) # current_type THEN acc
    ELSE generate_recursive(ctx, pattern_index + 2,
                            Append(current_outfit, item),
                            used_types \cup {current_type},
                            [acc EXCEPT !.tried = @ + 1])

(* the body of the loop for one item *)
TryItem(ctx, pattern_index, current_outfit, used_types, item, current_type, acc) ==
    IF ItemGet(item, "type", None) # current_type THEN acc
    ELSE generate_recursive(ctx, pattern_index + 1,
                            Append(current_outfit, item),
                            used_types \cup {current_type},
                            [acc EXCEPT !.tried = @ + 1])

EmptyAcc == [outfits |-> <<>>, tried |-> 0, scored |-> 0]

(* The enumeration of the earlier backend tree: no duplicate test, no      *)
(* pattern validation, no threshold, no used_types.                        *)
LegacyCompleted(ctx, current_outfit, score, acc) ==
    [acc EXCEPT !.scored = @ + 1,
                !.outfits = Append(@,
                    OutfitRecord(current_outfit, score, ctx.occasion,
                                 OutfitTypes(current_outfit)))]

RECURSIVE legacy_generate_recursive(_, _, _, _)
RECURSIVE LegacyTryItems(_, _, _, _, _, _)

legacy_generate_recursive(ctx, pattern_index, current_outfit, acc) ==
    IF pattern_index >= Len(ctx.combination_pattern)
    THEN LegacyCompleted(ctx, current_outfit,
             calculate_outfit_score(current_outfit, ctx.occasion, ctx.rules),
             acc)
    ELSE IF Len(acc.outfits) >= ctx.max_combinations THEN acc
    ELSE LegacyTryItems(ctx, pattern_index, current_outfit,
             FirstFive(AvailableItems(ctx.items_by_type,
                 ctx.combination_pattern[pattern_index + 1])),
             1, acc)

LegacyTryItems(ctx, pattern_index, current_outfit, items, i, acc) ==
    IF i > Len(items) THEN acc
    ELSE IF Len(acc.outfits) >= ctx.max_combinations THEN acc
    ELSE LegacyTryItems(ctx, pattern_index, current_outfit, items, i + 1,
             legacy_generate_recursive(ctx, pattern_index + 1,
                 Append(current_outfit, items[i]),
                 [acc EXCEPT !.tried = @ + 1]))

legacy_generate_combinations(items_by_type, combination_pattern, occasion, rules, max_combinations) ==
    IF ~(SeqToSet(combination_pattern) \subseteq DOMAIN items_by_type)
    THEN EmptyAcc
    ELSE legacy_generate_recursive(
             [items_by_type |-> items_by_type,
              combination_pattern |-> combination_pattern,
              occasion |-> occasion,
              rules |-> rules,
              max_combinations |-> max_combinations],
             0, <<>>, EmptyAcc)

(* OutfitRecommender._generate_combinations *)
generate_combinations(items_by_type, combination_pattern, occasion, rules, max_combinations) ==
    IF ~(SeqToSet(combination_pattern) \subseteq DOMAIN items_by_type)
    THEN EmptyAcc
    ELSE IF HasDuplicates(combination_pattern) THEN EmptyAcc
    ELSE IF ~ValidOutfitPattern(combination_pattern) THEN EmptyAcc
    ELSE generate_recursive(
             [items_by_type |-> items_by_type,
              combination_pattern |-> combination_pattern,
              occasion |-> occasion,
              rules |-> rules,
              max_combinations |-> max_combinations],
             0, <<>>, {}, EmptyAcc)

(* a variant of the sort that places an outfit ahead of those of equal     *)
(* score                                                                   *)
RECURSIVE InsertBeforeEqual(_, _)
InsertBeforeEqual(sorted, outfit) ==
    IF sorted = <<>> THEN <<outfit>>
    ELSE IF RLe(Head(sorted).score, outfit.score)
         THEN <<outfit>> \o sorted
         ELSE <<Head(sorted)>> \o InsertBeforeEqual(Tail(sorted), outfit)

(* a variant of recommend_outfits without its sort *)
Unsorted(sorted, rest) == sorted \o rest

(* outfits.sort(key=lambda x: x['score'], reverse=True): a stable sort,    *)
(* outfits of equal score keep their order                                 *)
RECURSIVE InsertByScore(_, _)
InsertByScore(sorted, outfit) ==
    IF sorted = <<>> THEN <<outfit>>
    ELSE IF RLt(Head(sorted).score, outfit.score)
         THEN <<outfit>> \o sorted
         ELSE <<Head(sorted)>> \o InsertByScore(Tail(sorted), outfit)

RECURSIVE SortByScoreDesc(_, _)
SortByScoreDesc(sorted, rest) ==
    IF rest = <<>> THEN sorted
    ELSE SortByScoreDesc(InsertByScore(sorted, Head(rest)), Tail(rest))

(* outfits[:max_outfits], max_outfits >= 0 *)
Take(seq, n) == SubSeq(seq, 1, IF Len(seq) < n THEN Len(seq) ELSE n)

(* outfits.extend(combo_outfits), with the counters of the search *)
Extend(acc, generated) ==
    [outfits |-> acc.outfits \o generated.outfits,
     tried |-> acc.tried + generated.tried,
     scored |-> acc.scored + generated.scored]

(* a variant of the loop that stops after the first pattern, whatever it  *)
(* produced                                                                *)
StopAfterFirstPattern(items_by_type, occasion, rules, max_outfits, combinations, acc) == acc

(* the loop  for combination in rules['preferred_combinations'] *)
RECURSIVE PatternLoop(_, _, _, _, _, _)
RECURSIVE AfterPattern(_, _, _, _, _, _)

PatternLoop(items_by_type, occasion, rules, max_outfits, combinations, acc) ==
    IF combinations = <<>> THEN acc
    ELSE AfterPattern(items_by_type, occasion, rules, max_outfits, combinations,
             Extend(acc,
                 generate_combinations(items_by_type, Head(combinations),
                     occasion, rules, max_outfits - Len(acc.outfits))))

(* if len(outfits) >= max_outfits: break *)
AfterPattern(items_by_type, occasion, rules, max_outfits, combinations, acc) ==
    IF Len(acc.outfits) >= max_outfits THEN acc
    ELSE PatternLoop(items_by_type, occasion, rules, max_outfits,
                     Tail(combinations), acc)

(* what a call gives back: the exception it raised ("none" when it         *)
(* returned), the list returned, the outfits in the order the search       *)
(* appended them, and the two counters of its search                       *)
Returned(outfits, discovered, tried, scored) ==
    [raised |-> "none", outfits |-> outfits, discovered |-> discovered,
     tried |-> tried, scored |-> scored]

NothingFound == Returned(<<>>, <<>>, 0, 0)

ReturnedFrom(found) ==
    Returned(found.outfits, found.outfits, found.tried, found.scored)

Raised(exception) ==
    [raised |-> exception, outfits |-> <<>>, discovered |-> <<>>,
     tried |-> 0, scored |-> 0]

(* outfits.sort(...); return outfits[:max_outfits] *)
SortedAndCut(found, max_outfits) ==
    Returned(Take(SortByScoreDesc(<<>>, found.outfits), max_outfits),
             found.outfits, found.tried, found.scored)

RecommendWith(items_by_type, occasion, rules, max_outfits) ==
    SortedAndCut(PatternLoop(items_by_type, occasion, rules, max_outfits,
                             rules.preferred_combinations, EmptyAcc),
                 max_outfits)

(* a variant of recommend_outfits without the empty-wardrobe return and    *)
(* with the rule looked up as self.occasion_rules[occasion]                *)
recommend_outfits_strict(clothing_items, occasion, max_outfits, items_per_outfit) ==
    IF occasion \notin DOMAIN occasion_rules THEN Raised("KeyError")
    ELSE RecommendWith(ItemsByType(clothing_items), occasion,
                       occasion_rules[occasion], max_outfits)

(* a variant that searches only the patterns of items_per_outfit positions *)
recommend_outfits_of_size(clothing_items, occasion, max_outfits, items_per_outfit) ==
    IF clothing_items = <<>> THEN NothingFound
    ELSE RecommendWith(ItemsByType(clothing_items), occasion,
             [RulesFor(occasion) EXCEPT !.preferred_combinations =
                 SelectSeq(@, LAMBDA pattern : Len(pattern) = items_per_outfit)],
             max_outfits)

(* OutfitRecommender.recommend_outfits *)
recommend_outfits(clothing_items, occasion, max_outfits, items_per_outfit) ==
    IF clothing_items = <<>> THEN NothingFound
    ELSE RecommendWith(ItemsByType(clothing_items), occasion,
                       RulesFor(occasion), max_outfits)

----------------------------------------------------------------------------
(* The inputs of the model: wardrobes drawn from a catalog of clothing     *)
(* items as main.py builds them (id, type, colors, dominant_color,         *)
(* features), some with keys left out, and the arguments of the calls.     *)

Catalog ==
    << [id |-> "shirt", type |-> "top", dominant_color |-> Red,
        colors |-> <<[hex |-> Red], [hex |-> White]>>,
        features |-> Vec(<<1, 0>>)],
       [id |-> "tee", type |-> "top", features |-> NoFeatures],
       [id |-> "jeans", type |-> "bottom", dominant_color |-> Navy,
        colors |-> <<[hex |-> Navy]>>, features |-> Vec(<<3, 4>>)],
       [id |-> "chinos", type |-> "bottom", dominant_color |-> Navy,
        colors |-> <<[hex |-> Navy]>>, features |-> Vec(<<3, 4>>)],
       [id |-> "skirt", type |-> "bottom", dominant_color |-> CyanUpper,
        features |-> Vec(<<1, 0>>)],
       [id |-> "shorts", type |-> "bottom", dominant_color |-> White,
        colors |-> <<>>, features |-> NaNVec],
       [id |-> "gown", type |-> "dress", dominant_color |-> Orange,
        colors |-> <<[hex |-> Orange], [hex |-> Maroon]>>],
       [id |-> "jacket", type |-> "blazer", dominant_color |-> Maroon,
        colors |-> <<[hex |-> Maroon]>>, features |-> Vec(<<-1, 0>>)],
       [id |-> "boots", type |-> "shoes", dominant_color |-> GrayHex,
        colors |-> <<[hex |-> GrayHex]>>, features |-> Vec(<<0, 0>>)] >>

MaxWardrobe == 3

MaxOutfits == 2

(* the items of a list at the positions in S, from position i on, in the  *)
(* order of the list                                                       *)
RECURSIVE Pick(_, _, _)
Pick(items, i, S) ==
    IF i > Len(items) THEN <<>>
    ELSE (IF i \in S THEN <<items[i]>> ELSE <<>>) \o Pick(items, i + 1, S)

Wardrobes ==
    {Pick(Catalog, 1, S) : S \in {T \in SUBSET (1..Len(Catalog)) :
                                     Cardinality(T) <= MaxWardrobe}}

KnownOccasions == DOMAIN occasion_rules

UnknownOccasions == {"wedding"}

Occasions == KnownOccasions \cup UnknownOccasions

ItemsPerOutfitValues == {2}

(* patterns given to _generate_combinations: the configured ones and       *)
(* adversarial ones                                                        *)
ConfiguredPatterns ==
    UNION {SeqToSet(occasion_rules[o].preferred_combinations) :
              o \in KnownOccasions}

AdversarialPatterns ==
    { <<"top", "top">>, <<"top", "top", "bottom">>, <<"top">>,
      <<"bottom", "shoes">>, <<"dress", "shoes">>, <<"dress", "top", "shoes">>,
      <<"blazer", "top">>, <<>> }

Patterns == ConfiguredPatterns \cup AdversarialPatterns

Idle == [name |-> "idle"]

----------------------------------------------------------------------------
(* The state machine: a caller holds a wardrobe and makes one call at a    *)
(* time; result is what the call returned.                                 *)

Init ==
    /\ wardrobe \in Wardrobes
    /\ op = Idle
    /\ result = NothingFound

(* a request: recommender.recommend_outfits(wardrobe, occasion, k, n) *)
Recommend ==
    /\ op = Idle
    /\ \E occasion \in Occasions, max_outfits \in 0..MaxOutfits,
          items_per_outfit \in ItemsPerOutfitValues :
          /\ op' = [name |-> "recommend_outfits", occasion |-> occasion,
                    max_outfits |-> max_outfits,
                    items_per_outfit |-> items_per_outfit]
          /\ result' = recommend_outfits(wardrobe, occasion, max_outfits,
                                         items_per_outfit)
    /\ UNCHANGED wardrobe

(* a direct call of _generate_combinations on the grouped wardrobe *)
GenerateCombinations ==
    /\ op = Idle
    /\ wardrobe # <<>>
    /\ \E pattern \in Patterns, occasion \in {"casual"},
          max_combinations \in 1..MaxOutfits :
          /\ op' = [name |-> "generate_combinations", pattern |-> pattern,
                    occasion |-> occasion,
                    max_combinations |-> max_combinations]
          /\ result' = ReturnedFrom(
                           generate_combinations(ItemsByType(wardrobe), pattern,
                               occasion, RulesFor(occasion), max_combinations))
    /\ UNCHANGED wardrobe

(* what _calculate_outfit_score computes: its four components and the     *)
(* weighted score                                                          *)
ScoreReport(outfit_items, occasion, rules) ==
    [raised |-> "none", outfits |-> <<>>, discovered |-> <<>>,
     tried |-> 0, scored |-> 1,
     color_score |-> calculate_color_harmony(outfit_items, rules.color_style),
     style_score |-> calculate_style_similarity(outfit_items),
     occasion_score |-> calculate_occasion_fit(outfit_items, rules),
     variety_score |-> VarietyScore(outfit_items),
     score |-> calculate_outfit_score(outfit_items, occasion, rules)]

(* a direct call of _calculate_outfit_score with the wardrobe as the       *)
(* outfit                                                                  *)
Score ==
    /\ op = Idle
    /\ wardrobe # <<>>
    /\ \E occasion \in KnownOccasions :
          /\ op' = [name |-> "calculate_outfit_score",
                    outfit_items |-> wardrobe, occasion |-> occasion]
          /\ result' = ScoreReport(wardrobe, occasion, RulesFor(occasion))
    /\ UNCHANGED wardrobe

(* the caller drops the result; the next call starts afresh *)
EndRequest ==
    /\ op # Idle
    /\ op' = Idle
    /\ result' = NothingFound
    /\ UNCHANGED wardrobe

Next == Recommend \/ GenerateCombinations \/ Score \/ EndRequest

Spec == Init /\ [][Next]_vars

----------------------------------------------------------------------------
(* Properties of the recommender                                           *)

IsRecommend == op.name = "recommend_outfits"

IsGenerate == op.name = "generate_combinations"

IsScore == op.name = "calculate_outfit_score"

(* what recommend_outfits gives back for the wardrobe of the state *)
RecommendedFor(occasion, max_outfits) ==
    recommend_outfits(wardrobe, occasion, max_outfits, 2)

NonIncreasing(outfits) ==
    \A i \in 1..(Len(outfits) - 1) :
        FGe(outfits[i].score, outfits[i + 1].score)

IndexOf(seq, x) == CHOOSE i \in 1..Len(seq) : seq[i] = x

(* every element of sub is in seq, and in the same relative order *)
InOrder(sub, seq) ==
    /\ \A i \in 1..Len(sub) : Contains(seq, sub[i])
    /\ \A i, j \in 1..Len(sub) :
          i < j => IndexOf(seq, sub[i]) < IndexOf(seq, sub[j])

(* outfits of equal score are in the order of their discovery *)
TiesInDiscoveryOrder(outfits, discovered) ==
    \A i, j \in 1..Len(outfits) :
        i < j /\ outfits[i].score = outfits[j].score
            => IndexOf(discovered, outfits[i]) < IndexOf(discovered, outfits[j])

(* C1: recommend_outfits returns at most max_outfits outfits, and their    *)
(* scores are non-increasing from the first entry to the last.             *)
C1_AtMostMaxOutfitsDescending ==
    IsRecommend =>
        /\ result.raised = "none"
        /\ Len(result.outfits) <= op.max_outfits
        /\ NonIncreasing(result.outfits)

(* C1 happens: a call returned two outfits, the one discovered second      *)
(* first because it scores higher.                                         *)
C1_Witness ==
    /\ IsRecommend
    /\ op.max_outfits = 2
    /\ Len(result.outfits) = 2
    /\ RLt(result.outfits[2].score, result.outfits[1].score)
    /\ result.discovered[1] = result.outfits[2]

(* the list returned for a cap is a prefix of the list returned for a      *)
(* larger cap                                                              *)
PrefixOf(returned, larger) ==
    returned = Take(larger, Len(returned))

KeptInOrder(returned, k, larger) ==
    /\ InOrder(returned, larger.outfits)
    /\ Len(returned) = Len(Take(larger.discovered, k))
    /\ SeqToSet(returned) = SeqToSet(Take(larger.discovered, k))

Displaced(returned, larger) ==
    /\ Len(returned) = 1
    /\ Len(larger) = 2
    /\ larger[2] = returned[1]

SameTypeTwice(items) ==
    \E i, j \in 1..Len(items) :
        i < j /\ ItemGet(items[i], "type", None) = ItemGet(items[j], "type", None)

(* C3: in every outfit returned, by recommend_outfits or by a direct call  *)
(* of _generate_combinations, no two items have the same clothing type.    *)
C3_NoTwoItemsOfOneType ==
    IsRecommend \/ IsGenerate =>
        \A n \in 1..Len(result.outfits) : ~SameTypeTwice(result.outfits[n].items)

(* C3 happens: recommend_outfits returned an outfit of several items from  *)
(* a wardrobe holding two items of one type.                               *)
C3_Witness ==
    /\ IsRecommend
    /\ SameTypeTwice(wardrobe)
    /\ \E n \in 1..Len(result.outfits) : Len(result.outfits[n].items) >= 2

(* every tail of tails with item put in front *)
RECURSIVE Prepend(_, _)
Prepend(item, tails) ==
    IF tails = <<>> THEN <<>>
    ELSE <<(<<item>> \o Head(tails))>> \o Prepend(item, Tail(tails))

RECURSIVE Cross(_, _)
Cross(items, tails) ==
    IF items = <<>> THEN <<>>
    ELSE Prepend(Head(items), tails) \o Cross(Tail(items), tails)

(* the item tuples of a pattern whose types are all present, in            *)
(* depth-first order over each type's wardrobe order                       *)
RECURSIVE TuplesOf(_, _)
TuplesOf(items_by_type, pattern) ==
    IF pattern = <<>> THEN << <<>> >>
    ELSE Cross(items_by_type[Head(pattern)],
               TuplesOf(items_by_type, Tail(pattern)))

(* the candidates of the whole search space, pattern after pattern *)
RECURSIVE CandidatesOf(_, _)
CandidatesOf(items_by_type, patterns) ==
    IF patterns = <<>> THEN <<>>
    ELSE (IF SeqToSet(Head(patterns)) \subseteq DOMAIN items_by_type
          THEN TuplesOf(items_by_type, Head(patterns)) ELSE <<>>)
         \o CandidatesOf(items_by_type, Tail(patterns))

RECURSIVE AcceptedOf(_, _)
AcceptedOf(candidates, occasion) ==
    IF candidates = <<>> THEN <<>>
    ELSE (IF FGe(calculate_outfit_score(Head(candidates), occasion,
                                        RulesFor(occasion)), Pct(50))
          THEN <<Head(candidates)>> ELSE <<>>)
         \o AcceptedOf(Tail(candidates), occasion)

(* the accepted candidates of the wardrobe of the state, in discovery      *)
(* order                                                                   *)
AcceptedFor(occasion) ==
    AcceptedOf(CandidatesOf(ItemsByType(wardrobe),
                            RulesFor(occasion).preferred_combinations),
               occasion)

ItemsOfOutfits(outfits) == {outfits[n].items : n \in 1..Len(outfits)}

(* the outfits returned are made of the first k accepted candidates *)
FirstAccepted(returned, accepted, k) ==
    /\ Len(returned) = Len(Take(accepted, k))
    /\ ItemsOfOutfits(returned) = SeqToSet(Take(accepted, k))

(* C4: the outfits recommend_outfits returns are exactly the first         *)
(* max_outfits accepted candidates in discovery order (patterns in the     *)
(* occasion's order, item tuples depth-first in wardrobe order); a pattern *)
(* with a type the wardrobe lacks contributes nothing and the next         *)
(* pattern is still tried.                                                 *)
C4_FirstAcceptedInDiscoveryOrder ==
    IsRecommend =>
        FirstAccepted(result.outfits, AcceptedFor(op.occasion), op.max_outfits)

(* an accepted candidate that was not returned scores higher than the one  *)
(* outfit returned                                                         *)
BetterLeftOut(returned, accepted, occasion) ==
    /\ Len(returned) = 1
    /\ \E n \in 1..Len(accepted) :
          /\ accepted[n] # returned[1].items
          /\ RLt(returned[1].score,
                 calculate_outfit_score(accepted[n], occasion,
                                        RulesFor(occasion)))

(* C4 happens: the first pattern of the occasion names a type the wardrobe *)
(* lacks, an outfit of a later pattern is returned, and an accepted        *)
(* candidate left out scores higher than the outfit returned.              *)
C4_Witness ==
    /\ IsRecommend
    /\ wardrobe # <<>>
    /\ ~(SeqToSet(RulesFor(op.occasion).preferred_combinations[1])
            \subseteq DOMAIN ItemsByType(wardrobe))
    /\ BetterLeftOut(result.outfits, AcceptedFor(op.occasion), op.occasion)

(* the patterns the validity precondition admits: exactly {dress}, top     *)
(* with bottom, blazer with dress, or one of these with shoes added        *)
AdmittedWithoutShoes(types) ==
    \/ types = {"dress"}
    \/ {"top", "bottom"} \subseteq types
    \/ {"blazer", "dress"} \subseteq types

Admitted(types) ==
    \/ AdmittedWithoutShoes(types)
    \/ "shoes" \in types /\ AdmittedWithoutShoes(types \ {"shoes"})

(* C5: _generate_combinations produces outfits for a pattern only if the   *)
(* pattern's type set is exactly {dress}, or contains both top and bottom, *)
(* or contains both blazer and dress, or is one of these with shoes        *)
(* added; for every other pattern it returns no outfits and does not       *)
(* raise.                                                                  *)
C5_OutfitsOnlyForAdmittedPatterns ==
    IsGenerate =>
        /\ result.raised = "none"
        /\ result.outfits # <<>> => Admitted(SeqToSet(op.pattern))

(* some position of a pattern repeats an earlier one *)
NamesTypeTwice(pattern) ==
    \E i, j \in 1..Len(pattern) : i < j /\ pattern[i] = pattern[j]

(* C6: a pattern that names the same type twice is rejected before the     *)
(* search starts: no outfit is produced from it, no item is tried and no   *)
(* candidate is scored.                                                    *)
C6_DuplicatePatternRejectedBeforeSearch ==
    IsGenerate /\ NamesTypeTwice(op.pattern) =>
        /\ result.raised = "none"
        /\ result.outfits = <<>>
        /\ result.tried = 0
        /\ result.scored = 0

(* C6 happens: the pattern (top, top, bottom) was given with a wardrobe    *)
(* that holds two tops and a bottom.                                       *)
C6_Witness ==
    /\ IsGenerate
    /\ op.pattern = <<"top", "top", "bottom">>
    /\ Len(wardrobe) = 3
    /\ Len(AvailableItems(ItemsByType(wardrobe), "top")) = 2
    /\ Len(AvailableItems(ItemsByType(wardrobe), "bottom")) = 1
    /\ result.outfits = <<>>

(* C7: given an empty wardrobe, recommend_outfits returns the empty list   *)
(* for every occasion string, known or unknown, and every max_outfits,     *)
(* and never raises.                                                       *)
C7_EmptyWardrobeGivesEmptyList ==
    IsRecommend /\ wardrobe = <<>> =>
        /\ result.raised = "none"
        /\ result.outfits = <<>>

(* C7 happens: recommend_outfits was called with an empty wardrobe and an  *)
(* occasion the rule table lacks.                                          *)
C7_Witness ==
    /\ IsRecommend
    /\ wardrobe = <<>>
    /\ op.occasion \notin DOMAIN occasion_rules
    /\ op.max_outfits > 0
    /\ result.outfits = <<>>

(* the items and the score of each outfit of a list, in the list's order *)
ItemsAndScores(outfits) ==
    [n \in 1..Len(outfits) |->
        [items |-> outfits[n].items, score |-> outfits[n].score]]

(* C8: for an occasion string absent from the rule table, recommend_outfits *)
(* returns the same outfits (same items, same scores, same order) as for    *)
(* occasion 'casual', without raising.                                      *)
C8_UnknownOccasionAsCasual ==
    IsRecommend /\ op.occasion \notin DOMAIN occasion_rules =>
        /\ result.raised = "none"
        /\ ItemsAndScores(result.outfits) =
              ItemsAndScores(RecommendedFor("casual", op.max_outfits).outfits)

(* C8 happens: a call with an unknown occasion returned two outfits, and   *)
(* the formal rule gives other scores for the same wardrobe.               *)
C8_Witness ==
    /\ IsRecommend
    /\ op.occasion \notin DOMAIN occasion_rules
    /\ Len(result.outfits) = 2
    /\ ItemsAndScores(result.outfits) #
          ItemsAndScores(RecommendedFor("formal", op.max_outfits).outfits)

(* C9: every outfit recommend_outfits returns has score >= 0.50; a         *)
(* completed assignment that scores lower is not added, and when no        *)
(* candidate reaches 0.50 the result is the empty list, not an error.      *)
C9_ReturnedOutfitsReachThreshold ==
    IsRecommend =>
        /\ result.raised = "none"
        /\ \A n \in 1..Len(result.outfits) :
              FGe(result.outfits[n].score, Pct(50))

(* C9 happens: candidates were scored, none of them reached 0.50, and the  *)
(* empty list was returned.                                                *)
C9_Witness ==
    /\ IsRecommend
    /\ op.max_outfits > 0
    /\ result.scored > 0
    /\ result.outfits = <<>>
    /\ result.raised = "none"

InUnitInterval(x) == ~IsNaN(x) /\ RLe(R0, x) /\ RLe(x, R1)

(* every embedding of the outfit is a vector of real numbers *)
RealEmbeddings(outfit_items) ==
    \A i \in 1..Len(outfit_items) :
        ItemGet(outfit_items[i], "features", NoFeatures) # NaNVec

----------------------------------------------------------------------------
(* Wardrobes with more than five items of one type.                        *)

MaxPerType == 6

MaxRackOutfits == 7

RackColors == <<Red, Navy, Orange, Maroon, CyanUpper, White, GrayHex>>

(* the n-th item of a type, as main.py builds an analyzed item *)
RackItem(item_type, n, color) ==
    [id |-> <<item_type, n>>, type |-> item_type,
     dominant_color |-> RackColors[((n + color) % Len(RackColors)) + 1],
     colors |-> <<>>, features |-> Vec(<<1, 0>>)]

RackTops(n) == [i \in 1..n |-> RackItem("top", i, 0)]

RackBottoms(n) == [i \in 1..n |-> RackItem("bottom", i, 2)]

(* two lists merged alternately, each keeping its order *)
RECURSIVE Interleave(_, _)
Interleave(a, b) ==
    IF a = <<>> THEN b
    ELSE IF b = <<>> THEN a
    ELSE <<Head(a), Head(b)>> \o Interleave(Tail(a), Tail(b))

RackOrders == {"tops_first", "bottoms_first", "interleaved"}

Arrange(order, tops, bottoms) ==
    IF order = "tops_first" THEN tops \o bottoms
    ELSE IF order = "bottoms_first" THEN bottoms \o tops
    ELSE Interleave(tops, bottoms)

RackWardrobes ==
    {Arrange(order, RackTops(nt), RackBottoms(nb)) :
        order \in RackOrders, nt \in 1..MaxPerType, nb \in 1..MaxPerType}

RackInit ==
    /\ wardrobe \in RackWardrobes
    /\ op = Idle
    /\ result = NothingFound

(* a request on a large wardrobe, with a cap below and above the number of *)
(* items of a type                                                         *)
RecommendFromRack ==
    /\ op = Idle
    /\ \E occasion \in {"casual", "formal"}, max_outfits \in 1..MaxRackOutfits :
          /\ op' = [name |-> "recommend_outfits", occasion |-> occasion,
                    max_outfits |-> max_outfits, items_per_outfit |-> 2]
          /\ result' = recommend_outfits(wardrobe, occasion, max_outfits, 2)
    /\ UNCHANGED wardrobe

RackNext == RecommendFromRack \/ EndRequest

RackSpec == RackInit /\ [][RackNext]_vars

(* the place of a wardrobe item among the items of its type, in wardrobe   *)
(* order                                                                   *)
RankInType(item) ==
    Cardinality({j \in 1..IndexOf(wardrobe, item) :
                    GroupKey(wardrobe[j]) = GroupKey(item)})

(* C11: an item that is not among the first five items of its type, in    *)
(* the wardrobe's order, is in no outfit recommend_outfits returns.        *)
C11_OnlyFirstFiveOfEachType ==
    IsRecommend =>
        \A i \in 1..Len(result.outfits) :
            \A j \in 1..Len(result.outfits[i].items) :
                /\ Contains(wardrobe, result.outfits[i].items[j])
                /\ RankInType(result.outfits[i].items[j]) <= 5

(* C11 happens: the wardrobe has one bottom and a sixth top, the cap       *)
(* leaves room for six outfits, and five are returned.                     *)
C11_Witness ==
    /\ IsRecommend
    /\ Len(ItemsOfType(wardrobe, "top")) > 5
    /\ Len(ItemsOfType(wardrobe, "bottom")) = 1
    /\ op.max_outfits > 5
    /\ Len(result.outfits) = 5

----------------------------------------------------------------------------
(* The colour analyzer called on its own: a caller passes hex strings or   *)
(* RGB triples to one method of ColorAnalyzer at a time.                   *)

(* what a method call gives back: the value returned, or the exception     *)
(* that left it                                                            *)
ValueReturned(value) == [raised |-> "none", value |-> value]

Threw(exception) == [raised |-> exception, value |-> None]

(* hex colours: the hues of the colour wheel at full saturation, hues on   *)
(* the edges of the bands, pale and dark colours, and neutrals             *)
RedUpper == <<"#", "F", "F", "0", "0", "0", "0">>
Yellow == <<"#", "f", "f", "f", "f", "0", "0">>
Lime == <<"#", "0", "0", "f", "f", "0", "0">>
Blue == <<"#", "0", "0", "0", "0", "f", "f">>
Hue15 == <<"#", "8", "0", "2", "0", "0", "0">>
Hue45 == <<"#", "8", "0", "6", "0", "0", "0">>
Hue75 == <<"#", "6", "0", "8", "0", "0", "0">>
Hue105 == <<"#", "2", "0", "8", "0", "0", "0">>
Hue130 == <<"#", "0", "0", "7", "8", "1", "4">>
Hue135 == <<"#", "0", "0", "8", "0", "2", "0">>
Hue165 == <<"#", "0", "0", "7", "8", "5", "a">>
Hue168 == <<"#", "0", "0", "7", "8", "6", "0">>
PalePink == <<"#", "f", "f", "b", "4", "b", "4">>
Blush == <<"#", "f", "f", "e", "6", "e", "6">>
Saturation20 == <<"#", "f", "a", "c", "8", "c", "8">>
Black == <<"#", "0", "0", "0", "0", "0", "0">>

Swatches ==
    {Red, RedUpper, Orange, Yellow, Lime, CyanUpper, Blue, Navy, Maroon,
     Hue15, Hue45, Hue75, Hue105, Hue130, Hue135, Hue165, Hue168,
     PalePink, Blush, Saturation20, GrayHex, White, Black}

(* strings that are not a colour *)
TooShort == <<"#", "f", "f", "f">>
NotHex == <<"#", "g", "g", "0", "0", "0", "0">>

HarmonyInputs == Swatches \cup {TooShort, NotHex}

(* a call of are_colors_harmonious: hex_to_rgb runs first on both strings  *)
(* and its exception leaves the method                                     *)
HarmonyCall(hex_color1, hex_color2) ==
    IF hex_to_rgb_raises(hex_color1) \/ hex_to_rgb_raises(hex_color2)
    THEN Threw("ValueError")
    ELSE ValueReturned(are_colors_harmonious(hex_color1, hex_color2))

(* a call of get_color_scheme_type *)
SchemeCall(hex_color1, hex_color2) ==
    IF hex_to_rgb_raises(hex_color1) \/ hex_to_rgb_raises(hex_color2)
    THEN Threw("ValueError")
    ELSE ValueReturned(get_color_scheme_type(hex_color1, hex_color2))

ColorInit ==
    /\ wardrobe = <<>>
    /\ op = Idle
    /\ result = NothingFound

AreColorsHarmonious ==
    /\ op = Idle
    /\ \E hex_color1 \in HarmonyInputs, hex_color2 \in HarmonyInputs :
          /\ op' = [name |-> "are_colors_harmonious",
                    hex_color1 |-> hex_color1, hex_color2 |-> hex_color2]
          /\ result' = HarmonyCall(hex_color1, hex_color2)
    /\ UNCHANGED wardrobe

GetColorSchemeType ==
    /\ op = Idle
    /\ \E hex_color1 \in HarmonyInputs, hex_color2 \in HarmonyInputs :
          /\ op' = [name |-> "get_color_scheme_type",
                    hex_color1 |-> hex_color1, hex_color2 |-> hex_color2]
          /\ result' = SchemeCall(hex_color1, hex_color2)
    /\ UNCHANGED wardrobe

(* well-formed colours in either case, built from pairs of digits *)
ByteStrings ==
    { <<"0", "0">>, <<"f", "f">>, <<"F", "F">>, <<"0", "f">>, <<"a", "B">>,
      <<"8", "0">>, <<"1", "0">> }

ValidHex ==
    {<<"#">> \o a \o b \o c : a \in ByteStrings, b \in ByteStrings,
                               c \in ByteStrings}

(* strings that are not '#' and six digits: too short, too long, a second  *)
(* '#', characters that are no digits, signs and blanks                    *)
MalformedHex ==
    { <<>>, <<"#">>, TooShort, NotHex,
      <<"#", "f", "f", "0", "0">>,
      <<"#", "f", "f", "f", "f", "f">>,
      <<"#", "f", "f", "0", "0", "0", "0", "1", "2">>,
      <<"#", "#", "f", "f", "0", "0", "0", "0">>,
      <<"#", "+", "f", "0", "0", "0", "0">>,
      <<"#", "-", "f", "0", "0", "0", "0">>,
      <<"#", " ", "f", "0", "0", "0", "0">>,
      <<"#", "f", " ", "0", "0", "0", "0">>,
      <<"#", "0", "x", "0", "0", "0", "0">>,
      <<"#", "1", "_", "0", "0", "0", "0">>,
      <<"#", "f", "f", "0", "0", "0", "g">> }

HexInputs ==
    ValidHex \cup MalformedHex \cup {<<"f", "f", "8", "0", "0", "0">>}

Channels == {0, 1, 15, 16, 127, 128, 255}

RgbTriples == Channels \X Channels \X Channels

(* a call of hex_to_rgb *)
HexToRgbCall(hex_color) ==
    IF hex_to_rgb_raises(hex_color) THEN Threw("ValueError")
    ELSE ValueReturned(hex_to_rgb(hex_color))

HexToRgb ==
    /\ op = Idle
    /\ \E hex_color \in HexInputs :
          /\ op' = [name |-> "hex_to_rgb", hex_color |-> hex_color]
          /\ result' = HexToRgbCall(hex_color)
    /\ UNCHANGED wardrobe

RgbToHex ==
    /\ op = Idle
    /\ \E rgb \in RgbTriples :
          /\ op' = [name |-> "rgb_to_hex", rgb |-> rgb]
          /\ result' = ValueReturned(rgb_to_hex(rgb))
    /\ UNCHANGED wardrobe

(* colours of test_color_naming *)
MagentaUpper == <<"#", "F", "F", "0", "0", "F", "F">>
BrownUpper == <<"#", "A", "5", "2", "A", "2", "A">>
PinkUpper == <<"#", "F", "F", "C", "0", "C", "B">>
PurpleUpper == <<"#", "8", "0", "0", "0", "8", "0">>

NameInputs ==
    Swatches \cup {MagentaUpper, BrownUpper, PinkUpper, PurpleUpper, TooShort}

(* a call of get_color_name with a hex string or, as extract_colors makes  *)
(* it, with an RGB tuple: the method bound starts with                     *)
(* hex_color.lstrip('#'), which a tuple does not have                      *)
GetColorNameCall(argument) ==
    IF "rgb" \in DOMAIN argument THEN Threw("AttributeError")
    ELSE IF hex_to_rgb_raises(argument.hex_color) THEN Threw("ValueError")
    ELSE ValueReturned(get_color_name(argument.hex_color))

GetColorName ==
    /\ op = Idle
    /\ \E argument \in {[rgb |-> rgb] : rgb \in RgbTriples}
                          \cup {[hex_color |-> x] : x \in NameInputs} :
          /\ op' = [name |-> "get_color_name", argument |-> argument]
          /\ result' = GetColorNameCall(argument)
    /\ UNCHANGED wardrobe

(* hsv_to_rgb(rgb_to_hsv(rgb)) *)
HsvRoundTrip ==
    /\ op = Idle
    /\ \E rgb \in RgbTriples :
          /\ op' = [name |-> "hsv_round_trip", rgb |-> rgb]
          /\ \E out \in hsv_to_rgb(rgb_to_hsv(rgb)) :
                result' = ValueReturned(out)
    /\ UNCHANGED wardrobe

ColorNext ==
    \/ AreColorsHarmonious
    \/ GetColorSchemeType
    \/ HexToRgb
    \/ RgbToHex
    \/ HsvRoundTrip
    \/ GetColorName
    \/ EndRequest

ColorSpec == ColorInit /\ [][ColorNext]_vars

----------------------------------------------------------------------------
(* Properties of the colour analyzer.                                      *)

IsHarmony == op.name = "are_colors_harmonious"

IsScheme == op.name = "get_color_scheme_type"

(* a string of '#' and six hexadecimal digits, or the six digits alone *)
SixHexDigits(s) == Len(s) = 6 /\ \A i \in 1..6 : IsHexDigit(s[i])

WellFormedHex(x) ==
    \/ SixHexDigits(x)
    \/ x # <<>> /\ Head(x) = "#" /\ SixHexDigits(Tail(x))

(* the channels of a well-formed colour, digit by digit *)
ChannelsOf(x) ==
    [k \in 1..3 |-> 16 * HexVal(x[Len(x) - 6 + 2 * k - 1])
                       + HexVal(x[Len(x) - 6 + 2 * k])]

(* saturation below 20 percent: (max - min) / max < 1/5, black included *)
LowSaturation(rgb) ==
    5 * (Max3(rgb[1], rgb[2], rgb[3]) - Min3(rgb[1], rgb[2], rgb[3]))
        < Max3(rgb[1], rgb[2], rgb[3])
    \/ Max3(rgb[1], rgb[2], rgb[3]) = 0

IsNeutralHex(x) == LowSaturation(ChannelsOf(x))

BothWellFormed == WellFormedHex(op.hex_color1) /\ WellFormedHex(op.hex_color2)

NeutralPair == IsNeutralHex(op.hex_color1) \/ IsNeutralHex(op.hex_color2)

(* hue, saturation and value differences of the two colours of the call *)
HsvOfHex(x) == rgb_to_hsv(ChannelsOf(x))

HueDiffOfCall == HueDiff(HsvOfHex(op.hex_color1)[1], HsvOfHex(op.hex_color2)[1])

SatDiffOfCall == RAbs(RSub(HsvOfHex(op.hex_color1)[2], HsvOfHex(op.hex_color2)[2]))

ValDiffOfCall == RAbs(RSub(HsvOfHex(op.hex_color1)[3], HsvOfHex(op.hex_color2)[3]))

(* C12: are_colors_harmonious returns exactly 0.85 whenever either colour  *)
(* has saturation below 20, whatever the hues and the value and saturation *)
(* differences.                                                            *)
C12_NeutralPairScores085 ==
    IsHarmony /\ BothWellFormed /\ NeutralPair =>
        result = ValueReturned(Pct(85))

(* C12 happens: gray with pure red (written in capitals), a pair whose     *)
(* value difference would earn the contrast bonus, scored 0.85.            *)
C12_Witness ==
    /\ IsHarmony
    /\ op.hex_color1 = GrayHex
    /\ op.hex_color2 = RedUpper
    /\ RLt(RInt(25), ValDiffOfCall)
    /\ result = ValueReturned(Pct(85))

(* the bands of the hue difference in their order of priority, each with   *)
(* its bounds (lo_open: the lower bound itself is outside) and base score  *)
Bands ==
    << [name |-> "complementary", lo |-> 160, hi |-> 200, lo_open |-> FALSE,
        hi_open |-> FALSE, base |-> Pct(95)],
       [name |-> "triadic", lo |-> 105, hi |-> 135, lo_open |-> FALSE,
        hi_open |-> FALSE, base |-> Pct(92)],
       [name |-> "tetradic", lo |-> 75, hi |-> 105, lo_open |-> FALSE,
        hi_open |-> FALSE, base |-> Pct(90)],
       [name |-> "analogous", lo |-> 15, hi |-> 45, lo_open |-> FALSE,
        hi_open |-> FALSE, base |-> Pct(87)],
       [name |-> "split-complementary", lo |-> 130, hi |-> 170,
        lo_open |-> FALSE, hi_open |-> FALSE, base |-> Pct(82)],
       [name |-> "near", lo |-> 45, hi |-> 75, lo_open |-> TRUE,
        hi_open |-> FALSE, base |-> Pct(78)],
       [name |-> "moderate", lo |-> 75, hi |-> 105, lo_open |-> TRUE,
        hi_open |-> TRUE, base |-> Pct(70)],
       [name |-> "else", lo |-> 0, hi |-> 180, lo_open |-> FALSE,
        hi_open |-> FALSE, base |-> Pct(55)] >>

InBand(band, d) ==
    /\ IF band.lo_open THEN RLt(RInt(band.lo), d) ELSE RLe(RInt(band.lo), d)
    /\ IF band.hi_open THEN RLt(d, RInt(band.hi)) ELSE RLe(d, RInt(band.hi))

FirstBand(d) ==
    Bands[CHOOSE i \in 1..Len(Bands) :
             InBand(Bands[i], d) /\ \A j \in 1..(i - 1) : ~InBand(Bands[j], d)]

(* the two adjustments of a band's base score: + 0.05 (capped at 1) for a  *)
(* value difference above 25, then - 0.05 (not below 0.5) for a saturation *)
(* difference above 60                                                     *)
AdjustedBase(base, sat_diff, val_diff) ==
    IF RLt(RInt(60), sat_diff)
    THEN RMax(RSub(IF RLt(RInt(25), val_diff)
                   THEN RMin(RAdd(base, Pct(5)), R1) ELSE base, Pct(5)),
              Pct(50))
    ELSE IF RLt(RInt(25), val_diff) THEN RMin(RAdd(base, Pct(5)), R1)
    ELSE base

(* C13: for two non-neutral colours the first matching rule decides: a hue *)
(* difference below 15 gives 0.88 if the value difference exceeds 30 and   *)
(* 0.75 otherwise; from 15 on the base score is that of the first matching *)
(* band in the order complementary, triadic, tetradic, analogous,          *)
(* split-complementary, near, moderate, else (105 is triadic), to which    *)
(* the value and saturation adjustments are applied.                       *)
C13_FirstMatchingBandDecides ==
    IsHarmony /\ BothWellFormed /\ ~NeutralPair =>
        result = ValueReturned(
            IF RLt(HueDiffOfCall, RInt(15))
            THEN (IF RLt(RInt(30), ValDiffOfCall) THEN Pct(88) ELSE Pct(75))
            ELSE AdjustedBase(FirstBand(HueDiffOfCall).base, SatDiffOfCall,
                              ValDiffOfCall))

(* C13 happens: red with a green of hue 105, a difference both the triadic *)
(* and the tetradic band hold, scored 0.92 + 0.05 for the value contrast.  *)
C13_Witness ==
    /\ IsHarmony
    /\ op.hex_color1 = Red
    /\ op.hex_color2 = Hue105
    /\ HueDiffOfCall = RInt(105)
    /\ result = ValueReturned(Pct(97))

(* the scheme a band of are_colors_harmonious stands for *)
SchemeOfBand(band) ==
    IF band.name \in {"complementary", "triadic", "tetradic", "analogous",
                      "split-complementary"}
    THEN band.name ELSE "custom"

(* C14: get_color_scheme_type returns neutral when either saturation is    *)
(* below 20; for a non-neutral pair with hue difference of 15 or more it   *)
(* names the band from which are_colors_harmonious takes its base score    *)
(* (complementary, triadic, tetradic, analogous, split-complementary) and  *)
(* custom for every other such pair.                                       *)
C14_SchemeNamesTheHarmonyBand ==
    IsScheme /\ BothWellFormed =>
        IF NeutralPair THEN result = ValueReturned("neutral")
        ELSE RLe(RInt(15), HueDiffOfCall) =>
                result = ValueReturned(SchemeOfBand(FirstBand(HueDiffOfCall)))

IsHexToRgb == op.name = "hex_to_rgb"

IsRgbToHex == op.name = "rgb_to_hex"

(* '#' followed by six hexadecimal digits *)
HashAndSixDigits(x) == x # <<>> /\ Head(x) = "#" /\ SixHexDigits(Tail(x))

(* a hex string with every digit in lowercase *)
Lowercase(x) ==
    [i \in 1..Len(x) |->
        IF IsHexDigit(x[i]) THEN HexDigits[HexVal(x[i]) + 1] ELSE x[i]]

(* C15: for every valid hex string x ('#' and six hexadecimal digits in    *)
(* either case) rgb_to_hex(hex_to_rgb(x)) is x in lowercase, and for every *)
(* RGB triple t of channels in 0..255 hex_to_rgb(rgb_to_hex(t)) = t.       *)
C15_HexRgbRoundTrip ==
    /\ IsHexToRgb /\ HashAndSixDigits(op.hex_color) =>
          /\ result.raised = "none"
          /\ rgb_to_hex(result.value) = Lowercase(op.hex_color)
    /\ IsRgbToHex =>
          /\ result.raised = "none"
          /\ HexToRgbCall(result.value) = ValueReturned(op.rgb)

(* C15 happens: a colour written with capitals and small letters came back *)
(* from the round trip in lowercase, different from the string given.      *)
C15_Witness ==
    /\ IsHexToRgb
    /\ op.hex_color = <<"#", "a", "B", "F", "F", "0", "f">>
    /\ result = ValueReturned(<<171, 255, 15>>)
    /\ rgb_to_hex(result.value) = <<"#", "a", "b", "f", "f", "0", "f">>

(* C16: hex_to_rgb raises for every malformed hex string (every string     *)
(* that, after an optional leading '#', is not exactly six hexadecimal     *)
(* digits) and returns no colour for it; are_colors_harmonious and         *)
(* get_color_scheme_type let the error through.                            *)
C16_MalformedHexRaises ==
    /\ IsHexToRgb /\ ~WellFormedHex(op.hex_color) => result.raised # "none"
    /\ (IsHarmony \/ IsScheme) /\ ~BothWellFormed => result.raised # "none"

IsHsvRoundTrip == op.name = "hsv_round_trip"

(* C17: for every RGB colour c of channels in 0..255,                      *)
(* hsv_to_rgb(rgb_to_hsv(c)) differs from c by at most 1 in each channel;  *)
(* hsv_to_rgb truncates, so no channel comes back above its value.         *)
C17_HsvRoundTripWithinOne ==
    IsHsvRoundTrip =>
        /\ result.raised = "none"
        /\ \A k \in 1..3 :
              /\ result.value[k] <= op.rgb[k]
              /\ op.rgb[k] - result.value[k] <= 1

(* C17 happens: the colour (0, 0, 15) came back as (0, 0, 14), its blue    *)
(* channel truncated one below.                                            *)
C17_Witness ==
    /\ IsHsvRoundTrip
    /\ op.rgb = <<0, 0, 15>>
    /\ result = ValueReturned(<<0, 0, 14>>)

IsGetColorName == op.name = "get_color_name"

(* C18: get_color_name, called with any RGB triple of channels in 0..255   *)
(* (as extract_colors calls it for every cluster centre), returns a        *)
(* non-empty colour name and never raises.                                 *)
C18_NameForEveryRgbTriple ==
    IsGetColorName /\ "rgb" \in DOMAIN op.argument =>
        /\ result.raised = "none"
        /\ result.value # ""

(* the catalog entry closest to a colour, with its squared distance *)
ClosestTo(rgb) == color_names[ClosestEntry(rgb)]

NamedByCatalog(rgb) ==
    /\ ~LowSaturation(rgb)
    /\ SquaredDistance(rgb, ClosestTo(rgb).rgb) <= 100 * 100

(* C19: a colour that is not neutral and whose nearest entry of the        *)
(* named-colour catalog lies within Euclidean RGB distance 100 is given    *)
(* that entry's name by get_color_name; a non-neutral catalog colour is    *)
(* named by its own entry (#FF00FF Magenta, #A52A2A Brown, #000080 Navy,   *)
(* #800000 Maroon).                                                        *)
C19_NearestCatalogName ==
    /\ IsGetColorName
    /\ "hex_color" \in DOMAIN op.argument
    /\ WellFormedHex(op.argument.hex_color)
    /\ NamedByCatalog(ChannelsOf(op.argument.hex_color))
    => result = ValueReturned(ClosestTo(ChannelsOf(op.argument.hex_color)).name)

----------------------------------------------------------------------------
(* Style similarity of outfits with missing embeddings.                    *)

(* the items of an outfit that carry an embedding: the key 'features' is   *)
(* present and its value is not None                                       *)
EmbeddingCount(outfit_items) ==
    Cardinality({i \in 1..Len(outfit_items) :
                    /\ "features" \in DOMAIN outfit_items[i]
                    /\ outfit_items[i].features # NoFeatures})

(* C20 as stated: _calculate_style_similarity returns 0.75 for every       *)
(* outfit, of any size, in which fewer than 2 items carry an embedding,    *)
(* and does not raise.                                                     *)
C20_DefaultWithoutEmbeddings ==
    IsScore /\ EmbeddingCount(op.outfit_items) < 2 =>
        /\ result.raised = "none"
        /\ result.style_score = Pct(75)

(* C20 amended: for an outfit in which fewer than 2 items carry an         *)
(* embedding, _calculate_style_similarity returns 0.75 if the outfit has   *)
(* 2 items or more and 0.80 if it has fewer than 2 items, and does not     *)
(* raise because an embedding is absent or None.                           *)
C20_DefaultBySizeWithoutEmbeddings ==
    IsScore /\ EmbeddingCount(op.outfit_items) < 2 =>
        /\ result.raised = "none"
        /\ result.style_score =
              IF Len(op.outfit_items) < 2 THEN Pct(80) ELSE Pct(75)

(* C20 happens: an outfit of three items, one with an embedding, one whose *)
(* embedding is None and one without the key, has style similarity 0.75.   *)
C20_Witness ==
    /\ IsScore
    /\ Len(op.outfit_items) = 3
    /\ EmbeddingCount(op.outfit_items) = 1
    /\ \E i \in 1..3 : "features" \notin DOMAIN op.outfit_items[i]
    /\ \E i \in 1..3 : /\ "features" \in DOMAIN op.outfit_items[i]
                        /\ op.outfit_items[i].features = NoFeatures
    /\ result.style_score = Pct(75)

----------------------------------------------------------------------------
(* recommend_outfits statement by statement.  Several calls of the one     *)
(* recommender run at once, a step of one between two steps of another.    *)
(* wardrobe is the list the callers pass; op[call] is the position of a    *)
(* call: its arguments, the statement it is at, the pattern it is on and   *)
(* the stack of its generate_recursive frames; result.objects holds the    *)
(* lists and sets the statements read and write, result.returned what      *)
(* each call gave back.                                                    *)

(* a variant in which the lists of the search are attributes of the        *)
(* recommender, one set of them for every call                             *)
AttributesOfSelf(call) == 1

(* outfits = [], generate_recursive(0, [], set()): the lists and the set   *)
(* are created by the invocation, one set of them for each call            *)
LocalsOf(call) == call

(* a variant that stores the partial outfit itself in the dictionary *)
SameList(lists, list) == [lists |-> lists, list |-> list]

(* current_outfit.copy(): a new list object holding the same items; lists  *)
(* is the heap of list objects, a list is named by its place in it         *)
ListCopy(lists, list) ==
    [lists |-> Append(lists, lists[list]), list |-> Len(lists) + 1]

(* a variant that gives every pattern the whole cap *)
WholeBudget(max_outfits, outfits) == max_outfits

(* max_outfits - len(outfits), the cap handed to _generate_combinations *)
RemainingBudget(max_outfits, outfits) == max_outfits - Len(outfits)

(* the objects of an invocation before it created any *)
NoObjects ==
    [outfits |-> EmptyAcc, generated |-> EmptyAcc, lists |-> <<>>,
     current_outfit |-> 0, used_types |-> {}]

(* a call that has not run its first statement; steps counts the           *)
(* statements it has run                                                   *)
Request(occasion, max_outfits) ==
    [pc |-> "recommend_outfits", occasion |-> occasion,
     max_outfits |-> max_outfits, pattern_number |-> 0,
     max_combinations |-> 0, stack |-> <<>>, overlapped |-> FALSE,
     steps |-> 0]

Objects(call) == result.objects[LocalsOf(call)]

(* the frame of generate_recursive that is running *)
Frame(call) == op[call].stack[Len(op[call].stack)]

(* the pattern the loop of recommend_outfits is on *)
Combination(call) ==
    RulesFor(op[call].occasion).preferred_combinations[op[call].pattern_number]

(* the partial outfit, the items of the list current_outfit names *)
CurrentOutfit(objects) == objects.lists[objects.current_outfit]

(* the three early returns of _generate_combinations *)
ReturnsAtOnce(items_by_type, combination_pattern) ==
    \/ ~(SeqToSet(combination_pattern) \subseteq DOMAIN items_by_type)
    \/ HasDuplicates(combination_pattern)
    \/ ~ValidOutfitPattern(combination_pattern)

(* outfits.append({'items': current_outfit.copy(), ...}) *)
AppendOutfit(objects, outfit, copy) ==
    [objects EXCEPT !.lists = copy.lists,
                    !.generated.scored = @ + 1,
                    !.generated.outfits =
                        Append(@, [outfit EXCEPT !.items = copy.list])]

StepScored(request, objects, outfit_types, score) ==
    IF MeetsThreshold(score)
    THEN AppendOutfit(objects,
             OutfitRecord(CurrentOutfit(objects), score, request.occasion,
                          outfit_types),
             ListCopy(objects.lists, objects.current_outfit))
    ELSE [objects EXCEPT !.generated.scored = @ + 1]

(* the base case of generate_recursive on the objects of the call *)
StepCompleted(request, objects, outfit_types) ==
    IF HasDuplicates(outfit_types) THEN objects
    ELSE StepScored(request, objects, outfit_types,
             calculate_outfit_score(CurrentOutfit(objects), request.occasion,
                                    RulesFor(request.occasion)))

(* the items the loop of the running frame goes through *)
FrameItems(call) ==
    FirstFive(AvailableItems(ItemsByType(wardrobe),
                  Combination(call)[Frame(call).pattern_index + 1]))

(* an outfit dictionary with the items of the list it holds *)
WithItems(objects, outfits) ==
    [n \in 1..Len(outfits) |->
        [outfits[n] EXCEPT !.items = objects.lists[outfits[n].items]]]

(* the accumulator with every outfit's list read out *)
ReadOut(objects, acc) ==
    [acc EXCEPT !.outfits = WithItems(objects, acc.outfits)]

(* generate_recursive(0, [], set()): a new accumulator, a new empty list   *)
(* and a new empty set                                                     *)
NewSearch(objects) ==
    [objects EXCEPT !.generated = EmptyAcc,
                    !.lists = Append(@, <<>>),
                    !.current_outfit = Len(objects.lists) + 1,
                    !.used_types = {}]

(* current_outfit.append(item); used_types.add(current_type) *)
WithItem(objects, item, current_type) ==
    [objects EXCEPT !.lists[objects.current_outfit] = Append(@, item),
                    !.used_types = @ \cup {current_type},
                    !.generated.tried = @ + 1]

(* used_types.remove(current_type); current_outfit.pop() *)
WithoutLastItem(objects, current_type) ==
    [objects EXCEPT !.lists[objects.current_outfit] = SubSeq(@, 1, Len(@) - 1),
                    !.used_types = @ \ {current_type}]

(* the type of the position the frame below the running one is filling *)
CallerType(call) ==
    Combination(call)[op[call].stack[Len(op[call].stack) - 1].pattern_index + 1]

(* the stack without its running frame, the loop of the frame below moved  *)
(* to its next item                                                        *)
Resumed(stack) ==
    [n \in 1..(Len(stack) - 1) |->
        IF n = Len(stack) - 1 THEN [stack[n] EXCEPT !.i = @ + 1] ELSE stack[n]]

(* a call is running from its first statement to its return *)
Running(request) == request.pc \notin {"recommend_outfits", "done"}

(* kept for each call: whether it has taken a step while another call was  *)
(* running                                                                 *)
Overlapped(call) ==
    \/ op[call].overlapped
    \/ \E other \in DOMAIN op \ {call} : Running(op[other])

(* the first statements of recommend_outfits: the empty wardrobe returns   *)
(* [], otherwise the rule and the groups are taken and outfits = []        *)
EnterCall ==
    \E call \in DOMAIN op :
        /\ op[call].pc = "recommend_outfits"
        /\ IF wardrobe = <<>>
           THEN /\ op' = [op EXCEPT ![call].steps = @ + 1, ![call].overlapped = Overlapped(call),
                                    ![call].pc = "done"]
                /\ result' = [result EXCEPT !.returned[call] = NothingFound]
           ELSE /\ op' = [op EXCEPT ![call].steps = @ + 1, ![call].overlapped = Overlapped(call),
                                    ![call].pc = "for_combination",
                                    ![call].pattern_number = 1]
                /\ result' = [result EXCEPT
                                 !.objects[LocalsOf(call)].outfits = EmptyAcc]
        /\ UNCHANGED wardrobe

(* self._generate_combinations(...) for the pattern the loop is on, up to  *)
(* its call of generate_recursive                                          *)
CallGenerateCombinations ==
    \E call \in DOMAIN op :
        /\ op[call].pc = "for_combination"
        /\ IF ReturnsAtOnce(ItemsByType(wardrobe), Combination(call))
           THEN /\ op' = [op EXCEPT ![call].steps = @ + 1, ![call].overlapped = Overlapped(call),
                                    ![call].pc = "extend",
                             ![call].max_combinations =
                                 RemainingBudget(op[call].max_outfits,
                                     Objects(call).outfits.outfits)]
                /\ result' = [result EXCEPT
                                 !.objects[LocalsOf(call)].generated = EmptyAcc]
           ELSE /\ op' = [op EXCEPT ![call].steps = @ + 1, ![call].overlapped = Overlapped(call),
                                    ![call].pc = "generate_recursive",
                             ![call].max_combinations =
                                 RemainingBudget(op[call].max_outfits,
                                     Objects(call).outfits.outfits),
                             ![call].stack = <<[pattern_index |-> 0, i |-> 0]>>]
                /\ result' = [result EXCEPT
                                 !.objects[LocalsOf(call)] = NewSearch(@)]
        /\ UNCHANGED wardrobe

(* generate_recursive with every position filled: the outfit is scored and *)
(* appended when it reaches the threshold                                  *)
CompleteOutfit ==
    \E call \in DOMAIN op :
        /\ op[call].pc = "generate_recursive"
        /\ Frame(call).pattern_index >= Len(Combination(call))
        /\ op' = [op EXCEPT ![call].steps = @ + 1, ![call].overlapped = Overlapped(call),
                            ![call].pc = "return"]
        /\ result' = [result EXCEPT !.objects[LocalsOf(call)] =
                         StepCompleted(op[call], @, OutfitTypes(CurrentOutfit(@)))]
        /\ UNCHANGED wardrobe

(* generate_recursive with a position to fill: the cap and the used-types  *)
(* tests before the loop                                                   *)
EnterLoop ==
    \E call \in DOMAIN op :
        /\ op[call].pc = "generate_recursive"
        /\ Frame(call).pattern_index < Len(Combination(call))
        /\ op' = IF \/ Len(Objects(call).generated.outfits)
                           >= op[call].max_combinations
                    \/ Combination(call)[Frame(call).pattern_index + 1]
                           \in Objects(call).used_types
                 THEN [op EXCEPT ![call].steps = @ + 1, ![call].overlapped = Overlapped(call),
                                 ![call].pc = "return"]
                 ELSE [op EXCEPT ![call].steps = @ + 1, ![call].overlapped = Overlapped(call),
                                 ![call].pc = "for_item",
                                 ![call].stack[Len(op[call].stack)].i = 1]
        /\ UNCHANGED <<wardrobe, result>>

(* one turn of  for item in available_items[:5]:  the loop ends, the cap   *)
(* breaks it, the item is skipped, or the item is appended and             *)
(* generate_recursive called for the next position                         *)
TryNextItem ==
    \E call \in DOMAIN op :
        /\ op[call].pc = "for_item"
        /\ IF \/ Frame(call).i > Len(FrameItems(call))
              \/ Len(Objects(call).generated.outfits) >= op[call].max_combinations
           THEN /\ op' = [op EXCEPT ![call].steps = @ + 1, ![call].overlapped = Overlapped(call),
                                    ![call].pc = "return"]
                /\ UNCHANGED result
           ELSE IF ItemGet(FrameItems(call)[Frame(call).i], "type", None)
                      # Combination(call)[Frame(call).pattern_index + 1]
           THEN /\ op' = [op EXCEPT ![call].steps = @ + 1, ![call].overlapped = Overlapped(call),
                                    ![call].stack[Len(op[call].stack)].i = @ + 1]
                /\ UNCHANGED result
           ELSE /\ op' = [op EXCEPT ![call].steps = @ + 1, ![call].overlapped = Overlapped(call),
                                    ![call].pc = "generate_recursive",
                             ![call].stack = Append(@,
                                 [pattern_index |-> Frame(call).pattern_index + 1,
                                  i |-> 0])]
                /\ result' = [result EXCEPT !.objects[LocalsOf(call)] =
                                 WithItem(@, FrameItems(call)[Frame(call).i],
                                     Combination(call)[Frame(call).pattern_index + 1])]
        /\ UNCHANGED wardrobe

(* generate_recursive returns: to _generate_combinations, which returns    *)
(* its outfits, or into the loop of the frame below, which removes the     *)
(* type (KeyError when it is not in the set) and pops the item (IndexError *)
(* when the list is empty)                                                 *)
ReturnFromRecursive ==
    \E call \in DOMAIN op :
        /\ op[call].pc = "return"
        /\ IF Len(op[call].stack) = 1
           THEN /\ op' = [op EXCEPT ![call].steps = @ + 1, ![call].overlapped = Overlapped(call),
                                    ![call].pc = "extend", ![call].stack = <<>>]
                /\ UNCHANGED result
           ELSE IF CallerType(call) \notin Objects(call).used_types
           THEN /\ op' = [op EXCEPT ![call].steps = @ + 1, ![call].overlapped = Overlapped(call),
                                    ![call].pc = "done", ![call].stack = <<>>]
                /\ result' = [result EXCEPT !.returned[call] = Raised("KeyError")]
           ELSE IF CurrentOutfit(Objects(call)) = <<>>
           THEN /\ op' = [op EXCEPT ![call].steps = @ + 1, ![call].overlapped = Overlapped(call),
                                    ![call].pc = "done", ![call].stack = <<>>]
                /\ result' = [result EXCEPT
                                 !.objects[LocalsOf(call)].used_types =
                                     @ \ {CallerType(call)},
                                 !.returned[call] = Raised("IndexError")]
           ELSE /\ op' = [op EXCEPT ![call].steps = @ + 1, ![call].overlapped = Overlapped(call),
                                    ![call].pc = "for_item",
                                    ![call].stack = Resumed(@)]
                /\ result' = [result EXCEPT !.objects[LocalsOf(call)] =
                                 WithoutLastItem(@, CallerType(call))]
        /\ UNCHANGED wardrobe

(* outfits.extend(generated); if len(outfits) >= max_outfits: break; the   *)
(* loop goes to the next pattern or ends                                   *)
ExtendOutfits ==
    \E call \in DOMAIN op :
        /\ op[call].pc = "extend"
        /\ op' = IF \/ Len(Objects(call).outfits.outfits)
                          + Len(Objects(call).generated.outfits)
                          >= op[call].max_outfits
                    \/ op[call].pattern_number
                          = Len(RulesFor(op[call].occasion).preferred_combinations)
                 THEN [op EXCEPT ![call].steps = @ + 1, ![call].overlapped = Overlapped(call),
                                 ![call].pc = "sort"]
                 ELSE [op EXCEPT ![call].steps = @ + 1, ![call].overlapped = Overlapped(call),
                                 ![call].pc = "for_combination",
                                 ![call].pattern_number = @ + 1]
        /\ result' = [result EXCEPT !.objects[LocalsOf(call)].outfits =
                         Extend(@, Objects(call).generated)]
        /\ UNCHANGED wardrobe

(* outfits.sort(key=..., reverse=True); return outfits[:max_outfits] *)
SortAndReturn ==
    \E call \in DOMAIN op :
        /\ op[call].pc = "sort"
        /\ op' = [op EXCEPT ![call].steps = @ + 1, ![call].overlapped = Overlapped(call),
                            ![call].pc = "done"]
        /\ result' = [result EXCEPT !.returned[call] =
                         SortedAndCut(ReadOut(Objects(call), Objects(call).outfits),
                                      op[call].max_outfits)]
        /\ UNCHANGED wardrobe

(* the wardrobes of two concurrent calls, by the places of their items in  *)
(* the catalog: two bottoms and a dress, an embedding of NaN, shoes, a     *)
(* blazer, and the empty wardrobe                                          *)
SharedWardrobes ==
    {Pick(Catalog, 1, S) : S \in {{1, 3, 5, 7}, {1, 6}, {1, 3, 9}, {8, 1, 3}, {}}}

(* wardrobes of up to MaxPerType dresses, alone or after a top and a       *)
(* bottom, and of tops and bottoms                                         *)
RackDresses(n) == [i \in 1..n |-> RackItem("dress", i, 1)]

LargeWardrobes ==
    {RackDresses(n) : n \in 1..MaxPerType}
    \cup {RackTops(1) \o RackBottoms(1) \o RackDresses(n) : n \in 1..MaxPerType}
    \cup {RackTops(MaxPerType) \o RackBottoms(n) : n \in 1..MaxPerType}

Requests(occasions, max) ==
    {Request(occasion, max_outfits) : occasion \in occasions, max_outfits \in 0..max}

(* two requests, in one order (the calls are alike): for different         *)
(* occasions, or the same request twice                                    *)
RequestPairs(requests) ==
    {pair \in [{1, 2} -> requests] :
        \/ pair[1].occasion = "casual" /\ pair[2].occasion # "casual"
        \/ pair[1] = pair[2]}

(* no call has run a statement *)
AtStart(requests) ==
    [objects |-> [k \in {LocalsOf(call) : call \in DOMAIN requests} |->
                     NoObjects],
     returned |-> [call \in DOMAIN requests |-> NothingFound]]

(* two calls on a shared wardrobe *)
TwoCallsInit ==
    /\ wardrobe \in SharedWardrobes
    /\ op \in RequestPairs(Requests({"casual", "formal"}, MaxOutfits))
    /\ result = AtStart(op)

(* one call on a large wardrobe *)
OneCallInit ==
    /\ wardrobe \in LargeWardrobes
    /\ op \in [{1} -> Requests({"casual", "party"}, MaxRackOutfits)]
    /\ result = AtStart(op)

StepInit == TwoCallsInit \/ OneCallInit

StepNext ==
    \/ EnterCall
    \/ CallGenerateCombinations
    \/ CompleteOutfit
    \/ EnterLoop
    \/ TryNextItem
    \/ ReturnFromRecursive
    \/ ExtendOutfits
    \/ SortAndReturn

StepSpec == StepInit /\ [][StepNext]_vars

(* what each request on a shared wardrobe returns when its call runs alone *)
WhenRunAlone ==
    [clothing_items \in SharedWardrobes, occasion \in {"casual", "formal"},
     max_outfits \in 0..MaxOutfits |->
        recommend_outfits(clothing_items, occasion, max_outfits, 2)]

(* what the request of a call returns when the call runs alone *)
ReturnedAlone(request) ==
    IF wardrobe \in SharedWardrobes
    THEN WhenRunAlone[wardrobe, request.occasion, request.max_outfits]
    ELSE recommend_outfits(wardrobe, request.occasion, request.max_outfits, 2)

(* C21: two calls of recommend_outfits on the one recommender, their steps *)
(* interleaved in any way, each return what the call returns when it runs  *)
(* alone: the same outfits in the same order, found by the same search.    *)
C21_ConcurrentCallsReturnAsAlone ==
    \A call \in DOMAIN op :
        op[call].pc = "done" =>
            result.returned[call] = ReturnedAlone(op[call])

(* C21 happens: two calls with different requests have both returned       *)
(* outfits, and each took steps while the other was running.               *)
C21_Witness ==
    /\ DOMAIN op = {1, 2}
    /\ op[1].pc = "done" /\ op[2].pc = "done"
    /\ op[1].overlapped /\ op[2].overlapped
    /\ op[1].occasion # op[2].occasion
    /\ result.returned[1].outfits # <<>>
    /\ result.returned[2].outfits # <<>>
    /\ result.returned[1].outfits # result.returned[2].outfits

(* the outfit dictionaries an invocation has appended so far *)
Appended(objects) == objects.outfits.outfits \o objects.generated.outfits

(* every item of the list is an item of the caller's wardrobe *)
FromWardrobe(items) ==
    \A j \in 1..Len(items) : \E i \in 1..Len(wardrobe) : items[j] = wardrobe[i]

(* the list an outfit dictionary holds is another object than the partial  *)
(* outfit and than the list of every other dictionary                      *)
ListsApart(objects) ==
    \A n \in 1..Len(Appended(objects)) :
        /\ Appended(objects)[n].items # objects.current_outfit
        /\ \A m \in 1..Len(Appended(objects)) :
              Appended(objects)[m].items = Appended(objects)[n].items
                  => Appended(objects)[m] = Appended(objects)[n]

(* a step leaves the wardrobe as it was and the list of every outfit       *)
(* appended before it as it was; after it the lists of the appended        *)
(* outfits hold wardrobe items and are objects of their own                *)
FramePreserved ==
    /\ wardrobe' = wardrobe
    /\ \A k \in DOMAIN result.objects :
          /\ \A n \in 1..Len(Appended(result.objects[k])) :
                result'.objects[k].lists[Appended(result.objects[k])[n].items]
                    = result.objects[k].lists[Appended(result.objects[k])[n].items]
          /\ \A n \in 1..Len(Appended(result'.objects[k])) :
                FromWardrobe(result'.objects[k].lists[
                                 Appended(result'.objects[k])[n].items])
          /\ ListsApart(result'.objects[k])
    /\ \A call \in DOMAIN op :
          \A n \in 1..Len(result'.returned[call].outfits) :
              FromWardrobe(result'.returned[call].outfits[n].items)

(* C22: recommend_outfits leaves the caller's wardrobe list and its items  *)
(* unchanged; the items of an outfit are the wardrobe's items, and the     *)
(* item list of an outfit is a list of its own: once the outfit is         *)
(* appended, no later step of the search (append, pop) changes it.         *)
C22_WardrobeAndOutfitListsKept == [][FramePreserved]_vars

(* C22 happens: an outfit was appended, the search has since backtracked   *)
(* and filled the partial outfit with another item, and the outfit's list  *)
(* still holds the items it was appended with.                             *)
C22_Witness ==
    \E call \in DOMAIN op :
        /\ op[call].pc = "generate_recursive"
        /\ Len(Objects(call).generated.outfits) = 1
        /\ Len(CurrentOutfit(Objects(call))) = 2
        /\ Len(Objects(call).lists[Objects(call).generated.outfits[1].items]) = 2
        /\ Objects(call).lists[Objects(call).generated.outfits[1].items]
               # CurrentOutfit(Objects(call))

(* the statements between the call of generate_recursive and the extend *)
InSearch(request) ==
    request.pc \in {"generate_recursive", "for_item", "return", "extend"}

(* the sum of 5^(pattern length) over the patterns *)
RECURSIVE ScoreBound(_)
ScoreBound(combinations) ==
    IF combinations = <<>> THEN 0
    ELSE 5 ^ Len(Head(combinations)) + ScoreBound(Tail(combinations))

(* the calls of generate_recursive for a pattern of n positions are at     *)
(* most 1 + 5 + ... + 5^n                                                  *)
RECURSIVE CallBound(_)
CallBound(n) == IF n = 0 THEN 1 ELSE 5 ^ n + CallBound(n - 1)

(* a call of generate_recursive runs at most eight statements of the       *)
(* model (its tests, six turns of its loop, its return); a pattern adds    *)
(* the call of _generate_combinations and the extend, a request its first  *)
(* statements and its return                                               *)
RECURSIVE StepBound(_)
StepBound(combinations) ==
    IF combinations = <<>> THEN 2
    ELSE 2 + 8 * CallBound(Len(Head(combinations)))
           + StepBound(Tail(combinations))

(* the assignments scored for the pattern a call is on, and by the call in *)
(* all, stay within the bounds                                             *)
ScoredWithinBound ==
    \A call \in DOMAIN op :
        /\ InSearch(op[call]) =>
              Objects(call).generated.scored <= 5 ^ Len(Combination(call))
        /\ Objects(call).outfits.scored
              <= ScoreBound(RulesFor(op[call].occasion).preferred_combinations)
        /\ result.returned[call].scored
              <= ScoreBound(RulesFor(op[call].occasion).preferred_combinations)

(* a call has a next statement until it returns, and runs a bounded number *)
(* of statements                                                           *)
EndsWithinBound ==
    \A call \in DOMAIN op :
        /\ op[call].pc \in {"recommend_outfits", "for_combination",
                            "generate_recursive", "for_item", "return",
                            "extend", "sort", "done"}
        /\ op[call].pc \in {"generate_recursive", "for_item", "return"} =>
              op[call].stack # <<>>
        /\ op[call].pc \notin {"recommend_outfits", "done"} =>
              op[call].pattern_number \in
                  1..Len(RulesFor(op[call].occasion).preferred_combinations)
        /\ op[call].steps
              <= StepBound(RulesFor(op[call].occasion).preferred_combinations)

(* a step of a search whose accepted outfits have reached the cap appends  *)
(* no item to the partial outfit and scores nothing                        *)
NothingTriedAtCap ==
    \A call \in DOMAIN op :
        InSearch(op[call])
          /\ Len(Objects(call).generated.outfits) >= op[call].max_combinations
          /\ op'[call].pc # "for_combination" =>
            /\ result'.objects[LocalsOf(call)].generated.tried
                   = Objects(call).generated.tried
            /\ result'.objects[LocalsOf(call)].generated.scored
                   = Objects(call).generated.scored

(* C24: whatever the size of the wardrobe, the enumeration of a pattern    *)
(* ends (a call runs a bounded number of statements and has a next one     *)
(* until it returns), having scored at most 5^(pattern length) completed   *)
(* assignments, and tries no further item once the accepted outfits have   *)
(* reached the cap; a request scores at most the sum of 5^(pattern length) *)
(* over the patterns of its occasion.                                      *)
C24_SearchBoundedAndEnds ==
    [][ScoredWithinBound' /\ EndsWithinBound' /\ NothingTriedAtCap]_vars

(* C24 happens: a call on a wardrobe of six dresses, its cap above six,    *)
(* has returned after scoring five assignments of the one-position         *)
(* pattern.                                                                *)
C24_Witness ==
    /\ DOMAIN op = {1}
    /\ op[1].pc = "done"
    /\ op[1].occasion = "party"
    /\ op[1].max_outfits > 6
    /\ Len(wardrobe) = 6
    /\ \A i \in 1..Len(wardrobe) : wardrobe[i].type = "dress"
    /\ result.returned[1].scored = 5
    /\ Len(result.returned[1].outfits) = 5

(* the outfits a call has accepted so far: those of the patterns it has    *)
(* finished and, during a search, those of the pattern it is on            *)
Accepted(call) ==
    Len(Objects(call).outfits.outfits)
      + (IF InSearch(op[call]) THEN Len(Objects(call).generated.outfits) ELSE 0)

(* C27: at every statement of a call whose max_outfits is not negative the *)
(* outfits accepted over all the patterns are at most max_outfits, and the *)
(* slice outfits[:max_outfits] of the return drops none of them.           *)
C27_AcceptedWithinCap ==
    \A call \in DOMAIN op :
        op[call].max_outfits >= 0 =>
            /\ Accepted(call) <= op[call].max_outfits
            /\ op[call].pc = "done" =>
                  Len(result.returned[call].outfits)
                      = Len(Objects(call).outfits.outfits)

(* C27 happens: a call has returned as many outfits as its cap of two or   *)
(* more allows, taken from two patterns, the second of which could have    *)
(* given more than the budget left to it.                                  *)
C27_Witness ==
    \E call \in DOMAIN op :
        /\ op[call].pc = "done"
        /\ op[call].max_outfits >= 2
        /\ Len(result.returned[call].outfits) = op[call].max_outfits
        /\ \E m, n \in 1..Len(result.returned[call].outfits) :
              result.returned[call].outfits[m].types
                  # result.returned[call].outfits[n].types
        /\ Len(recommend_outfits(wardrobe, op[call].occasion,
                                 op[call].max_outfits + 1, 2).outfits)
               > op[call].max_outfits

----------------------------------------------------------------------------
(* Properties of the outfits one request returns                           *)

(* the items of an outfit, as a set *)
ItemSet(outfit) == SeqToSet(outfit.items)

(* the ids of the wardrobe's items differ *)
DistinctIds(clothing_items) ==
    \A i, j \in 1..Len(clothing_items) :
        i # j => clothing_items[i].id # clothing_items[j].id

(* C23: for a wardrobe whose items have distinct ids, no two outfits of    *)
(* one result consist of the same items, whichever patterns produced them. *)
C23_NoItemCombinationTwice ==
    IsRecommend /\ DistinctIds(wardrobe) =>
        \A i, j \in 1..Len(result.outfits) :
            i # j => ItemSet(result.outfits[i]) # ItemSet(result.outfits[j])

(* C23 happens: two patterns of the occasion each gave an outfit, and the  *)
(* items of one are among the items of the other.                          *)
C23_Witness ==
    /\ IsRecommend
    /\ DistinctIds(wardrobe)
    /\ Len(result.outfits) = 2
    /\ result.outfits[1].types # result.outfits[2].types
    /\ \/ ItemSet(result.outfits[1]) \subseteq ItemSet(result.outfits[2])
       \/ ItemSet(result.outfits[2]) \subseteq ItemSet(result.outfits[1])

(* the patterns of the rule recommend_outfits uses for the occasion *)
PatternsOf(occasion) == SeqToSet(RulesFor(occasion).preferred_combinations)

(* C28: the types of the items of every returned outfit are, in order, one *)
(* of the patterns of the rule used for the occasion; the outfit's 'types' *)
(* is that sequence and its total_items the length of the pattern.         *)
C28_OutfitFollowsPattern ==
    IsRecommend =>
        \A n \in 1..Len(result.outfits) :
            /\ OutfitTypes(result.outfits[n].items) \in PatternsOf(op.occasion)
            /\ result.outfits[n].types = OutfitTypes(result.outfits[n].items)
            /\ result.outfits[n].total_items = Len(result.outfits[n].types)
            /\ result.outfits[n].total_items = Len(result.outfits[n].items)

(* C28 happens: a request returned an outfit of a three-position pattern   *)
(* and one of a two-position pattern.                                      *)
C28_Witness ==
    /\ IsRecommend
    /\ \E m, n \in 1..Len(result.outfits) :
          /\ result.outfits[m].total_items = 3
          /\ Len(result.outfits[m].items) = 3
          /\ result.outfits[n].total_items = 2
          /\ result.outfits[n].types \in PatternsOf(op.occasion)

(* the wardrobe has an item for every position of the pattern *)
Fillable(clothing_items, pattern) ==
    \A i \in 1..Len(pattern) :
        \E j \in 1..Len(clothing_items) :
            ItemGet(clothing_items[j], "type", "other") = pattern[i]

(* a request returns the empty list only when its cap is not positive or   *)
(* no pattern of its rule can be filled from the wardrobe                  *)
EmptyOnlyWithoutCandidates ==
    result.outfits = <<>> =>
        \/ op.max_outfits <= 0
        \/ \A pattern \in PatternsOf(op.occasion) : ~Fillable(wardrobe, pattern)

(* every assignment the request scored was accepted *)
NothingRejected == result.scored = Len(result.discovered)

(* the floors of the four components and of their weighted sum,            *)
(* 0.4 * 0.5 + 0.3 * 0.6 + 0.2 * 0.5 + 0.1 / 3 = 77/150                    *)
ScoreAboveFloors ==
    /\ FGe(result.color_score, Pct(50))
    /\ FGe(result.style_score, Pct(60))
    /\ FGe(result.occasion_score, Pct(50))
    /\ FGe(result.variety_score, Rat(1, 3))
    /\ FGe(result.score, Rat(77, 150))
    /\ MeetsThreshold(result.score)

----------------------------------------------------------------------------
(* The argument items_per_outfit, which the endpoint passes on from its    *)
(* form field max_items: requests that differ in it.                       *)

MaxItemsPerOutfit == 4

HintInit ==
    /\ wardrobe \in SharedWardrobes
    /\ op = Idle
    /\ result = NothingFound

(* recommender.recommend_outfits(clothing_items=..., occasion=...,         *)
(* max_outfits=..., items_per_outfit=max_items)                            *)
RecommendWithHint ==
    /\ op = Idle
    /\ \E occasion \in Occasions, max_outfits \in 0..MaxOutfits,
          items_per_outfit \in 0..MaxItemsPerOutfit :
          /\ op' = [name |-> "recommend_outfits", occasion |-> occasion,
                    max_outfits |-> max_outfits,
                    items_per_outfit |-> items_per_outfit]
          /\ result' = recommend_outfits(wardrobe, occasion, max_outfits,
                                         items_per_outfit)
    /\ UNCHANGED wardrobe

HintNext == RecommendWithHint \/ EndRequest

HintSpec == HintInit /\ [][HintNext]_vars

----------------------------------------------------------------------------
(* Items whose type is not one of the six categories: the grouping of      *)
(* recommend_outfits and _calculate_occasion_fit on wardrobes that hold    *)
(* them.                                                                   *)

(* the categories of an item's type *)
Categories == {"top", "bottom", "dress", "shoes", "blazer", "other"}

(* items of the six categories, of a type outside them, and without type  *)
TypedCatalog ==
    << [id |-> "shirt", type |-> "top", dominant_color |-> Red],
       [id |-> "jeans", type |-> "bottom", dominant_color |-> Navy],
       [id |-> "gown", type |-> "dress", dominant_color |-> Orange],
       [id |-> "scarf", type |-> "other", dominant_color |-> White],
       [id |-> "cap", type |-> "hat", dominant_color |-> Maroon],
       [id |-> "unlabelled", dominant_color |-> GrayHex] >>

TypedWardrobes ==
    {Pick(TypedCatalog, 1, S) : S \in {T \in SUBSET (1..Len(TypedCatalog)) :
                                          Cardinality(T) <= MaxWardrobe}}

TypeInit ==
    /\ wardrobe \in TypedWardrobes
    /\ op = Idle
    /\ result = NothingFound

(* the grouping loop of recommend_outfits on the wardrobe *)
GroupItems ==
    /\ op = Idle
    /\ wardrobe # <<>>
    /\ op' = [name |-> "items_by_type"]
    /\ result' = ValueReturned(ItemsByType(wardrobe))
    /\ UNCHANGED wardrobe

(* _calculate_occasion_fit with the wardrobe as the outfit *)
OccasionFit ==
    /\ op = Idle
    /\ wardrobe # <<>>
    /\ \E occasion \in KnownOccasions :
          /\ op' = [name |-> "calculate_occasion_fit", occasion |-> occasion]
          /\ result' = ValueReturned(
                           calculate_occasion_fit(wardrobe, RulesFor(occasion)))
    /\ UNCHANGED wardrobe

TypeNext == GroupItems \/ OccasionFit

TypeSpec == TypeInit /\ [][TypeNext]_vars

(* an item with its type read as the claim reads it: a type outside the    *)
(* categories is 'other'                                                   *)
AsCategory(item) ==
    IF "type" \in DOMAIN item /\ item.type \notin Categories
    THEN [item EXCEPT !.type = "other"] ELSE item

(* the items grouped under 'other' when every type outside the categories  *)
(* counts as 'other', in wardrobe order                                    *)
OtherItems(clothing_items) ==
    ItemsOfType([i \in 1..Len(clothing_items) |-> AsCategory(clothing_items[i])],
                "other")

(* C25: an item whose type is none of top, bottom, dress, shoes, blazer,   *)
(* other is treated as an item of type other: it is grouped with the       *)
(* 'other' items, and its formality weight in the occasion fit is 0.4.     *)
C25_UnknownTypeAsOther ==
    /\ op.name = "items_by_type" =>
          /\ DOMAIN result.value \subseteq Categories
          /\ \A i \in 1..Len(wardrobe) :
                GroupKey(AsCategory(wardrobe[i])) = "other" =>
                    /\ "other" \in DOMAIN result.value
                    /\ Contains(result.value["other"], wardrobe[i])
    /\ op.name = "calculate_occasion_fit" =>
          result.value =
              calculate_occasion_fit(
                  [i \in 1..Len(wardrobe) |-> AsCategory(wardrobe[i])],
                  RulesFor(op.occasion))

----------------------------------------------------------------------------
(* The lazily created models of main.py.  Requests are served by async     *)
(* handlers on one event loop; get_models and the three getters run        *)
(* statement by statement.  op[request] is the position of a handler and   *)
(* the tuple get_models returned to it; result holds the module globals,   *)
(* the number of objects built of each class, and the handler that holds   *)
(* the event loop (0 when none does).                                      *)

MaxRequests == 3

(* the three models in the order get_models loads them: the getter's       *)
(* module global, the class it builds, the global of main.py it is         *)
(* assigned to                                                             *)
Getters ==
    << [global |-> "ml_classifier._classifier", class |-> "ClothingClassifier",
        main |-> "main._classifier"],
       [global |-> "color_analyzer._analyzer", class |-> "ColorAnalyzer",
        main |-> "main._color_analyzer"],
       [global |-> "outfit_recommender._recommender",
        class |-> "OutfitRecommender", main |-> "main._recommender"] >>

GlobalNames ==
    {Getters[k].global : k \in 1..3} \cup {Getters[k].main : k \in 1..3}

Classes == {Getters[k].class : k \in 1..3}

(* None, as an object beside the instances of the three classes *)
NoneObject == [class |-> "NoneType", n |-> 0]

(* a variant with handlers declared def: each runs in a thread of its own  *)
(* and may be preempted between any two statements                         *)
InThreadPool(request) == TRUE

(* async def handlers: the event loop runs one handler at a time, from its *)
(* start or an await to its next await or its end                          *)
OnEventLoop(request) ==
    \/ result.running = request
    \/ result.running = 0 /\ op[request].pc \in {"waiting", "await"}

(* the state with an object of the getter's class built and assigned to    *)
(* the getter's global, when that global is None                           *)
GetOrCreate(state, k) ==
    IF state.globals[Getters[k].global] # NoneObject THEN state
    ELSE [state EXCEPT
             !.built[Getters[k].class] = @ + 1,
             !.globals[Getters[k].global] =
                 [class |-> Getters[k].class,
                  n |-> state.built[Getters[k].class] + 1]]

(* X(): ColorAnalyzer and ClothingClassifier build themselves;             *)
(* OutfitRecommender.__init__ first calls get_color_analyzer() and         *)
(* get_classifier()                                                        *)
Constructed(state, k) ==
    IF Getters[k].class = "OutfitRecommender"
    THEN GetOrCreate(GetOrCreate(GetOrCreate(state, 2), 1), k)
    ELSE GetOrCreate(state, k)

LoaderInit ==
    /\ wardrobe = <<>>
    /\ op \in [1..MaxRequests ->
                  {[endpoint |-> e, pc |-> "waiting", model |-> 0, models |-> <<>>] :
                      e \in {"predict_type", "recommend_outfits"}}]
    /\ result = [globals |-> [g \in GlobalNames |-> NoneObject],
                 built |-> [c \in Classes |-> 0],
                 running |-> 0]

(* the handler starts and calls get_models() *)
StartHandler ==
    \E request \in DOMAIN op :
        /\ op[request].pc = "waiting"
        /\ OnEventLoop(request)
        /\ op' = [op EXCEPT ![request].pc = "get_models"]
        /\ result' = [result EXCEPT !.running = request]
        /\ UNCHANGED wardrobe

(* get_models: if _classifier is None *)
TestClassifier ==
    \E request \in DOMAIN op :
        /\ op[request].pc = "get_models"
        /\ OnEventLoop(request)
        /\ op' = IF result.globals["main._classifier"] = NoneObject
                 THEN [op EXCEPT ![request].pc = "getter", ![request].model = 1]
                 ELSE [op EXCEPT ![request].pc = "return"]
        /\ result' = [result EXCEPT !.running = request]
        /\ UNCHANGED wardrobe

(* a getter: if _x is None *)
TestGlobal ==
    \E request \in DOMAIN op :
        /\ op[request].pc = "getter"
        /\ OnEventLoop(request)
        /\ op' = IF result.globals[Getters[op[request].model].global] = NoneObject
                 THEN [op EXCEPT ![request].pc = "construct"]
                 ELSE [op EXCEPT ![request].pc = "assign"]
        /\ result' = [result EXCEPT !.running = request]
        /\ UNCHANGED wardrobe

(* a getter: _x = X() *)
Construct ==
    \E request \in DOMAIN op :
        /\ op[request].pc = "construct"
        /\ OnEventLoop(request)
        /\ op' = [op EXCEPT ![request].pc = "assign"]
        /\ result' = [Constructed(
                          [result EXCEPT
                              !.globals[Getters[op[request].model].global] = NoneObject],
                          op[request].model)
                         EXCEPT !.running = request]
        /\ UNCHANGED wardrobe

(* ClothingClassifier() raises while it loads ResNet50: the exception      *)
(* leaves get_models and the handler answers 500                           *)
ConstructFails ==
    \E request \in DOMAIN op :
        /\ op[request].pc = "construct"
        /\ Getters[op[request].model].class = "ClothingClassifier"
        /\ OnEventLoop(request)
        /\ op' = [op EXCEPT ![request].pc = "failed"]
        /\ result' = [result EXCEPT !.running = 0]
        /\ UNCHANGED wardrobe

(* get_models: _classifier = get_classifier(), and the two assignments     *)
(* after it                                                                *)
AssignModel ==
    \E request \in DOMAIN op :
        /\ op[request].pc = "assign"
        /\ OnEventLoop(request)
        /\ op' = IF op[request].model < 3
                 THEN [op EXCEPT ![request].pc = "getter", ![request].model = @ + 1]
                 ELSE [op EXCEPT ![request].pc = "return"]
        /\ result' = [result EXCEPT
                         !.globals[Getters[op[request].model].main] =
                             result.globals[Getters[op[request].model].global],
                         !.running = request]
        /\ UNCHANGED wardrobe

(* get_models: return _classifier, _color_analyzer, _recommender *)
ReturnModels ==
    \E request \in DOMAIN op :
        /\ op[request].pc = "return"
        /\ OnEventLoop(request)
        /\ op' = [op EXCEPT ![request].pc = "got_models",
                      ![request].models =
                          [k \in 1..3 |-> result.globals[Getters[k].main]]]
        /\ result' = [result EXCEPT !.running = request]
        /\ UNCHANGED wardrobe

(* predict_type: file_bytes = await file.read(), the handler gives up the  *)
(* event loop                                                              *)
AwaitRead ==
    \E request \in DOMAIN op :
        /\ op[request].pc = "got_models"
        /\ op[request].endpoint = "predict_type"
        /\ OnEventLoop(request)
        /\ op' = [op EXCEPT ![request].pc = "await"]
        /\ result' = [result EXCEPT !.running = 0]
        /\ UNCHANGED wardrobe

(* the rest of the handler, which has no await, and its response *)
Respond ==
    \E request \in DOMAIN op :
        /\ \/ op[request].pc = "await"
           \/ op[request].pc = "got_models"
                 /\ op[request].endpoint = "recommend_outfits"
        /\ OnEventLoop(request)
        /\ op' = [op EXCEPT ![request].pc = "done"]
        /\ result' = [result EXCEPT !.running = 0]
        /\ UNCHANGED wardrobe

LoaderNext ==
    \/ StartHandler
    \/ TestClassifier
    \/ TestGlobal
    \/ Construct
    \/ ConstructFails
    \/ AssignModel
    \/ ReturnModels
    \/ AwaitRead
    \/ Respond

LoaderSpec == LoaderInit /\ [][LoaderNext]_vars

(* get_models has returned to the handler *)
HasModels(request) == op[request].models # <<>>

(* C26: however the first requests interleave, at most one object of each  *)
(* of the three classes is built, every handler is given the same three    *)
(* objects, and no tuple get_models returns holds None.                    *)
C26_ModelsBuiltOnceAndComplete ==
    /\ \A c \in Classes : result.built[c] <= 1
    /\ \A request \in DOMAIN op :
          HasModels(request) =>
              /\ \A k \in 1..3 : op[request].models[k] # NoneObject
              /\ \A other \in DOMAIN op :
                    HasModels(other) => op[other].models = op[request].models

(* C26 happens: a first request failed to load the classifier, a second    *)
(* built the three models and is suspended in its await, and a third was   *)
(* given the same models meanwhile.                                        *)
C26_Witness ==
    \E first, second, third \in DOMAIN op :
        /\ op[first].pc = "failed"
        /\ op[second].pc = "await"
        /\ op[third].pc = "done"
        /\ HasModels(second) /\ HasModels(third)
        /\ op[second].models = op[third].models
        /\ \A c \in Classes : result.built[c] = 1

====
